---- MODULE Spec2Model ----
(***************************************************************************)
(* A model of the host-revenue-api consensus indexer: the SQLite Store     *)
(* (blocks, active_contracts, hourly_contract_stats, market_data,          *)
(* global_settings), Store.ProcessConsensusChange with the helpers it      *)
(* calls, the transaction wrapper, and the chain node that feeds it.       *)
(*                                                                         *)
(* Amounts are in whole coins (the code divides hastings by 10^24 before   *)
(* multiplying by a rate), times are in ticks, heights in blocks.          *)
(***************************************************************************)
EXTENDS Integers, Sequences, FiniteSets, TLC

\* ------------------------------------------------------------------ bounds

\* highest chain height the node reaches
MaxHeight == 4
\* most forks the node switches to
MaxReorgs == 1
\* most blocks the node publishes, forks included
MaxBlocks == 4
\* most blocks reverted by one consensus change
MaxReverted == 1
\* most blocks by which a fork is longer than the blocks it replaces
MaxForkGrowth == 1
\* block timestamps range over 1..MaxTime
MaxTime == 2

\* stypes.MaturityDelay is 144 blocks; the model scales it down
maturityDelay == 1
\* distance from the formation height to fc.WindowEnd on the modelled chain
WindowLen == 2

\* SQL NULL in an integer column (rowids and change ids start at 1)
NULL == 0
\* modules.ConsensusChangeBeginning, the zero change id
ConsensusChangeBeginning == 0

ContractIDs == {"c1", "c2"}

\* ------------------------------------------------------------------ values

ZeroValues == [SC |-> 0, USD |-> 0, EUR |-> 0, BTC |-> 0]

\* stats.Values.Add
ValuesAdd(v, b) ==
    [SC |-> v.SC + b.SC, USD |-> v.USD + b.USD, EUR |-> v.EUR + b.EUR, BTC |-> v.BTC + b.BTC]

\* types.Currency.SubWithUnderflow: (a - b, false), or (0, true) on underflow
SubWithUnderflow(a, b) ==
    IF a < b THEN [v |-> 0, underflow |-> TRUE] ELSE [v |-> a - b, underflow |-> FALSE]

RECURSIVE sum(_)
sum(values) ==
    IF values = <<>> THEN 0 ELSE values[1] + sum(Tail(values))

Max(S) == CHOOSE x \in S : \A y \in S : y <= x

Abs(x) == IF x < 0 THEN -x ELSE x

\* the element of a singleton set: The({e : x \in {v}}) is e with x naming
\* the value of v, as `x := v` names a result once before it is used
The(S) == CHOOSE x \in S : TRUE

\* inputs[:i] and inputs[i:] of a Go slice (i counts from 0)
SliceTo(s, i) == SubSeq(s, 1, i)
SliceFrom(s, i) == SubSeq(s, i + 1, Len(s))

\* ------------------------------------------------------------------ store

\* the database as init.sql leaves it: empty tables and the single
\* global_settings row with a NULL cursor
EmptyStore ==
    [blocks |-> {},
     active_contracts |-> {},
     hourly_contract_stats |-> {},
     market_data |-> {},
     global_settings |-> [db_version |-> 0,
                          contracts_last_processed_change |-> NULL,
                          contracts_height |-> NULL]]

\* SQLite's rowid for an INTEGER PRIMARY KEY insert: one above the largest
NextRowID(rows) ==
    IF rows = {} THEN 1 ELSE Max({r.id : r \in rows}) + 1

\* the result of a statement or helper inside a transaction
Ok(db) == [err |-> FALSE, db |-> db]
Fail(db) == [err |-> TRUE, db |-> db]

\* ------------------------------------------------------------------ cursor

LastChangeFromBeginning(db) == ConsensusChangeBeginning

\* Store.LastChange: the stored change id, or ConsensusChangeBeginning when
\* the column is NULL
LastChange(db) ==
    IF db.global_settings.contracts_last_processed_change = NULL
    THEN ConsensusChangeBeginning
    ELSE db.global_settings.contracts_last_processed_change

setLastChangeHeightOnly(db, ccID, height) ==
    Ok([db EXCEPT !.global_settings.contracts_height = height])

\* UPDATE global_settings SET contracts_last_processed_change, contracts_height
setLastChange(db, ccID, height) ==
    Ok([db EXCEPT !.global_settings.contracts_last_processed_change = ccID,
                  !.global_settings.contracts_height = height])

\* ------------------------------------------------------------------ blocks

addBlockNoUnique(db, blockID, height, timestamp) ==
    LET id == NextRowID(db.blocks)
        row == [id |-> id, block_id |-> blockID, height |-> height, date_created |-> timestamp]
    IN  [err |-> FALSE, db |-> [db EXCEPT !.blocks = @ \cup {row}], id |-> id]

\* INSERT INTO blocks ... RETURNING id; block_id and height are UNIQUE
addBlock(db, blockID, height, timestamp) ==
    IF \E b \in db.blocks : b.block_id = blockID \/ b.height = height
    THEN [err |-> TRUE, db |-> db, id |-> 0]
    ELSE LET id == NextRowID(db.blocks)
             row == [id |-> id, block_id |-> blockID, height |-> height, date_created |-> timestamp]
         IN  [err |-> FALSE, db |-> [db EXCEPT !.blocks = @ \cup {row}], id |-> id]

revertBlockKeepsProofs(db, blockID) ==
    IF ~ \E b \in db.blocks : b.block_id = blockID
    THEN Fail(db)
    ELSE LET row == CHOOSE b \in db.blocks : b.block_id = blockID
         IN  Ok([db EXCEPT !.active_contracts = {c \in @ : c.block_id # row.id},
                           !.blocks = @ \ {row}])

\* revertBlock: look the block up, null the proofs that point at it, delete
\* the contracts formed in it, delete its row
revertBlock(db, blockID) ==
    IF ~ \E b \in db.blocks : b.block_id = blockID
    THEN Fail(db)
    ELSE LET row == CHOOSE b \in db.blocks : b.block_id = blockID
             blockDBID == row.id
             cleared == {IF c.proof_block_id = blockDBID
                         THEN [c EXCEPT !.proof_block_id = NULL] ELSE c :
                         c \in db.active_contracts}
             kept == {c \in cleared : c.block_id # blockDBID}
         IN  Ok([db EXCEPT !.active_contracts = kept, !.blocks = @ \ {row}])

\* ------------------------------------------------------------------ contracts

\* types.FileContract.ValidHostPayout / MissedHostPayout: the second output
ValidHostPayout(fc) == fc.ValidProofOutputs[2]
MissedHostPayout(fc) == fc.MissedProofOutputs[2]

addActiveContractNoUnique(db, id, fc, blockID, initialValidRevenue, initialMissedRevenue) ==
    Ok([db EXCEPT !.active_contracts =
            @ \cup {[id |-> NextRowID(db.active_contracts),
                     block_id |-> blockID,
                     contract_id |-> id,
                     initial_valid_revenue |-> initialValidRevenue,
                     initial_missed_revenue |-> initialMissedRevenue,
                     initial_valid_payout_value |-> ValidHostPayout(fc),
                     initial_missed_payout_value |-> MissedHostPayout(fc),
                     valid_payout_value |-> ValidHostPayout(fc),
                     missed_payout_value |-> MissedHostPayout(fc),
                     expiration_height |-> fc.WindowEnd,
                     proof_block_id |-> NULL]}])

\* addActiveContract: contract_id is UNIQUE; both current payouts start at
\* the initial host payouts
addActiveContract(db, id, fc, blockID, initialValidRevenue, initialMissedRevenue) ==
    IF \E c \in db.active_contracts : c.contract_id = id
    THEN Fail(db)
    ELSE LET initialValid == IF Len(fc.ValidProofOutputs) >= 2 THEN ValidHostPayout(fc) ELSE 0
             initialMissed == IF Len(fc.MissedProofOutputs) >= 2 THEN MissedHostPayout(fc) ELSE 0
             \* the clamp to math.MaxInt64 never applies to the heights modelled
             expirationHeight == fc.WindowEnd
             row == [id |-> NextRowID(db.active_contracts),
                     block_id |-> blockID,
                     contract_id |-> id,
                     initial_valid_revenue |-> initialValidRevenue,
                     initial_missed_revenue |-> initialMissedRevenue,
                     initial_valid_payout_value |-> initialValid,
                     initial_missed_payout_value |-> initialMissed,
                     valid_payout_value |-> initialValid,
                     missed_payout_value |-> initialMissed,
                     expiration_height |-> expirationHeight,
                     proof_block_id |-> NULL]
         IN  Ok([db EXCEPT !.active_contracts = @ \cup {row}])

reviseContractAllRows(db, id, validPayout, missedPayout) ==
    Ok([db EXCEPT !.active_contracts =
            {[c EXCEPT !.valid_payout_value = validPayout,
                       !.missed_payout_value = missedPayout] : c \in @}])

\* reviseContract: UPDATE ... WHERE contract_id; no row is no error
reviseContract(db, id, validPayout, missedPayout) ==
    Ok([db EXCEPT !.active_contracts =
            {IF c.contract_id = id
             THEN [c EXCEPT !.valid_payout_value = validPayout,
                            !.missed_payout_value = missedPayout]
             ELSE c : c \in @}])

\* proveContract: UPDATE ... RETURNING id scanned from QueryRow, so no
\* matching row is sql.ErrNoRows
proveContract(db, id, blockID) ==
    IF ~ \E c \in db.active_contracts : c.contract_id = id
    THEN Fail(db)
    ELSE Ok([db EXCEPT !.active_contracts =
                {IF c.contract_id = id THEN [c EXCEPT !.proof_block_id = blockID] ELSE c :
                 c \in @}])

deleteExpiredKeepsProven(db, height) ==
    Ok([db EXCEPT !.active_contracts = {c \in @ : ~ (c.expiration_height <= height)}])

\* deleteExpired: rows with expiration_height <= height, then rows whose
\* proof block has height <= height
deleteExpired(db, height) ==
    LET unexpired == {c \in db.active_contracts : ~ (c.expiration_height <= height)}
        proven == {b.id : b \in {x \in db.blocks : x.height <= height}}
    IN  Ok([db EXCEPT !.active_contracts = {c \in unexpired : c.proof_block_id \notin proven}])

missedContractsStrictlyBelow(db, height) ==
    {c \in db.active_contracts : c.expiration_height < height /\ c.proof_block_id = NULL}

\* missedContracts: active rows past expiration with no proof
missedContracts(db, height) ==
    {c \in db.active_contracts : c.expiration_height <= height /\ c.proof_block_id = NULL}

validContractsAtProof(db, height) ==
    {c \in db.active_contracts :
        \E pb \in db.blocks : pb.id = c.proof_block_id /\ pb.height <= height + maturityDelay}

\* validContracts: active rows whose proof block is at or below height
validContracts(db, height) ==
    {c \in db.active_contracts :
        \E pb \in db.blocks : pb.id = c.proof_block_id /\ pb.height <= height}

\* ------------------------------------------------------------------ stats

\* getMetrics: the running totals of the latest hourly_contract_stats row
\* with date_created <= timestamp; the zero state when there is none
getMetrics(db, timestamp) ==
    LET rows == {r \in db.hourly_contract_stats : r.date_created <= timestamp}
    IN  IF rows = {}
        THEN [Active |-> 0, Valid |-> 0, Missed |-> 0,
              Revenue |-> ZeroValues, Payout |-> ZeroValues]
        ELSE LET r == CHOOSE x \in rows : \A y \in rows : y.date_created <= x.date_created
             IN  [Active |-> r.active_contracts, Valid |-> r.valid_contracts,
                  Missed |-> r.missed_contracts, Revenue |-> r.revenue, Payout |-> r.payout]

MetricsOfEarlierRows(store, timestamp) == getMetrics(store, timestamp - 1)

\* Store.Metrics(timestamp): the totals of the latest row at or before it
Metrics(store, timestamp) == getMetrics(store, timestamp)

\* the error Store.Metrics returns with the totals: QueryRow(...).Scan gives
\* sql.ErrNoRows when no row is at or before timestamp
MetricsNoRows(store, timestamp) ==
    ~ \E r \in store.hourly_contract_stats : r.date_created <= timestamp

\* the INSERT ... ON CONFLICT (date_created) DO UPDATE of updateContractStats
upsertStats(db, timestamp, state) ==
    LET row == [date_created |-> timestamp,
                active_contracts |-> state.Active,
                valid_contracts |-> state.Valid,
                missed_contracts |-> state.Missed,
                payout |-> state.Payout,
                revenue |-> state.Revenue]
    IN  [db EXCEPT !.hourly_contract_stats =
            {r \in @ : r.date_created # timestamp} \cup {row}]

updateContractStatsUnchecked(db, active, valid, missed, revenue, payout, timestamp) ==
    IF active = 0 /\ valid = 0 /\ missed = 0
    THEN Ok(db)
    ELSE LET before == getMetrics(db, timestamp)
             state == [Active |-> before.Active + active,
                       Valid |-> before.Valid + valid,
                       Missed |-> before.Missed + missed,
                       Revenue |-> ValuesAdd(before.Revenue, revenue),
                       Payout |-> ValuesAdd(before.Payout, payout)]
         IN  Ok(upsertStats(db, timestamp, state))

\* updateContractStats: nothing to do when the three deltas are zero;
\* otherwise read the running totals at the block's timestamp, add the
\* deltas, refuse a negative counter, and upsert the row keyed by timestamp
updateContractStats(db, active, valid, missed, revenue, payout, timestamp) ==
    IF active = 0 /\ valid = 0 /\ missed = 0
    THEN Ok(db)
    ELSE LET before == getMetrics(db, timestamp)
             state == [Active |-> before.Active + active,
                       Valid |-> before.Valid + valid,
                       Missed |-> before.Missed + missed,
                       Revenue |-> ValuesAdd(before.Revenue, revenue),
                       Payout |-> ValuesAdd(before.Payout, payout)]
         IN  IF state.Active < 0 \/ state.Valid < 0 \/ state.Missed < 0
             THEN Fail(db)
             ELSE Ok(upsertStats(db, timestamp, state))

getExchangeRateZeroIfMissing(db, timestamp) ==
    IF db.market_data = {}
    THEN [err |-> FALSE, usd |-> 0, eur |-> 0, btc |-> 0]
    ELSE LET r == CHOOSE x \in db.market_data :
                    \A y \in db.market_data :
                        Abs(x.date_created - timestamp) <= Abs(y.date_created - timestamp)
         IN  [err |-> FALSE, usd |-> r.usd_rate, eur |-> r.eur_rate, btc |-> r.btc_rate]

\* getExchangeRate: the market_data row nearest to timestamp, or an error
\* when the table is empty
getExchangeRate(db, timestamp) ==
    IF db.market_data = {}
    THEN [err |-> TRUE, usd |-> 0, eur |-> 0, btc |-> 0]
    ELSE LET r == CHOOSE x \in db.market_data :
                    \A y \in db.market_data :
                        Abs(x.date_created - timestamp) <= Abs(y.date_created - timestamp)
         IN  [err |-> FALSE, usd |-> r.usd_rate, eur |-> r.eur_rate, btc |-> r.btc_rate]

\* decimal.NewFromBigInt(sc.Big(), -24) times each rate
Fiat(sc, rates) ==
    [SC |-> sc, USD |-> sc * rates.usd, EUR |-> sc * rates.eur, BTC |-> sc * rates.btc]

\* revenue of a missed contract: the growth of the missed payout plus the
\* initial revenue, nothing at all when the missed payout shrank
MissedRevenue(c, rates) ==
    LET s == SubWithUnderflow(c.missed_payout_value, c.initial_missed_payout_value)
    IN  IF ~ s.underflow THEN Fiat(s.v + c.initial_missed_revenue, rates) ELSE ZeroValues

MissedPayoutOfMissedLeg(c, rates) == Fiat(c.missed_payout_value, rates)

\* payout of a missed contract: payout.SC = c.FinalValid
MissedPayout(c, rates) == Fiat(c.valid_payout_value, rates)

\* revenue of a proven contract; the BTC leg is never assigned
ValidRevenue(c, rates) ==
    LET s == SubWithUnderflow(c.valid_payout_value, c.initial_valid_payout_value)
    IN  IF ~ s.underflow
        THEN [Fiat(s.v + c.initial_valid_revenue, rates) EXCEPT !.BTC = 0]
        ELSE ZeroValues

ValidPayoutOfInitialLeg(c, rates) == Fiat(c.initial_valid_payout_value, rates)

\* payout of a proven contract: payout.SC = c.FinalValid
ValidPayout(c, rates) == Fiat(c.valid_payout_value, rates)

\* the loops that accumulate totalRevenue / totalPayout over the scanned rows
RECURSIVE SumValues(_, _)
SumValues(S, F) ==
    IF S = {} THEN ZeroValues
    ELSE LET c == CHOOSE x \in S : TRUE
         IN  ValuesAdd(F[c], SumValues(S \ {c}, F))

\* ------------------------------------------------------------------ estimator

\* estimateHostFunds: the first split (i ascending over range inputs, j
\* descending from len(outputs) to 0) that passes both tests
estimateHostFunds(inputs, outputs, renterTarget, hostTarget) ==
    LET good(i, j) ==
            LET renterInput == sum(SliceTo(inputs, i))
                hostInput == sum(SliceFrom(inputs, i))
                renterOutput == sum(SliceTo(outputs, j))
                hostOutput == sum(SliceFrom(outputs, j))
            IN  /\ ~ (renterInput < renterOutput \/ hostInput < hostOutput)
                /\ ~ (renterInput - renterOutput <= renterTarget
                      \/ hostInput - hostOutput >= hostTarget)
        splits == {p \in (0 .. Len(inputs) - 1) \X (0 .. Len(outputs)) : good(p[1], p[2])}
    IN  IF splits = {}
        THEN [v |-> 0, ok |-> FALSE]
        ELSE LET first == CHOOSE p \in splits :
                            \A q \in splits :
                                p[1] < q[1] \/ (p[1] = q[1] /\ p[2] >= q[2])
             IN  [v |-> sum(SliceFrom(inputs, first[1])) - sum(SliceFrom(outputs, first[2])),
                  ok |-> TRUE]

\* ------------------------------------------------------------------ indexer

\* spentUtxoValues: the value of every siacoin output diff whose direction
\* is DiffRevert, by output id
spentUtxoValues(cc) ==
    LET spent == {d \in cc.AppliedDiffs : d.Direction = "DiffRevert"}
    IN  [id \in {d.ID : d \in spent} |-> (CHOOSE d \in spent : d.ID = id).Value]

\* the values of a transaction's siacoin inputs; ok is FALSE when one of
\* them is missing from spentUtxoValues (log.Panic)
RECURSIVE inputValues(_, _)
inputValues(parents, spent) ==
    IF parents = <<>> THEN [ok |-> TRUE, values |-> <<>>]
    ELSE IF Head(parents) \notin DOMAIN spent THEN [ok |-> FALSE, values |-> <<>>]
    ELSE LET rest == inputValues(Tail(parents), spent)
         IN  [ok |-> rest.ok, values |-> <<spent[Head(parents)]>> \o rest.values]

initialRevenueOfAnyFormation(contract, nContracts, inputs, outputs, fees) ==
    IF Len(contract.ValidProofOutputs) >= 2 /\ Len(contract.MissedProofOutputs) >= 2
    THEN The({
            IF est.ok
            THEN The({[valid |-> IF ~ v.underflow THEN v.v ELSE 0,
                       missed |-> IF ~ m.underflow THEN m.v ELSE 0] :
                      v \in {SubWithUnderflow(ValidHostPayout(contract), est.v)},
                      m \in {SubWithUnderflow(MissedHostPayout(contract), est.v)}})
            ELSE [valid |-> 0, missed |-> 0] :
            est \in {estimateHostFunds(inputs, outputs,
                                       contract.ValidProofOutputs[1] + fees,
                                       contract.MissedProofOutputs[2])}})
    ELSE [valid |-> 0, missed |-> 0]

\* the renewal revenue estimate of one formation: only for a lone contract
\* with two valid and two missed outputs for which a split is found
initialRevenue(contract, nContracts, inputs, outputs, fees) ==
    IF Len(contract.ValidProofOutputs) >= 2 /\ Len(contract.MissedProofOutputs) >= 2
       /\ nContracts = 1
    THEN The({
            IF est.ok
            THEN The({[valid |-> IF ~ v.underflow THEN v.v ELSE 0,
                       missed |-> IF ~ m.underflow THEN m.v ELSE 0] :
                      v \in {SubWithUnderflow(ValidHostPayout(contract), est.v)},
                      m \in {SubWithUnderflow(MissedHostPayout(contract), est.v)}})
            ELSE [valid |-> 0, missed |-> 0] :
            est \in {estimateHostFunds(inputs, outputs,
                                       contract.ValidProofOutputs[1] + fees,
                                       contract.MissedProofOutputs[2])}})
    ELSE [valid |-> 0, missed |-> 0]

RECURSIVE addContractsUncounted(_, _, _, _, _, _, _)
addContractsUncounted(db, fcs, nContracts, inputs, outputs, fees, blockDBID) ==
    IF fcs = <<>> THEN [err |-> FALSE, db |-> db, active |-> 0]
    ELSE The({
            IF r.err THEN [err |-> TRUE, db |-> r.db, active |-> 0]
            ELSE addContractsUncounted(r.db, Tail(fcs), nContracts, inputs, outputs,
                                       fees, blockDBID) :
            r \in {addActiveContract(db, Head(fcs).ID, Head(fcs), blockDBID, rev.valid, rev.missed) :
                   rev \in {initialRevenue(Head(fcs), nContracts, inputs, outputs, fees)}}})

\* the loop over txn.FileContracts: one active-contract row and one
\* active++ per formation
RECURSIVE addContracts(_, _, _, _, _, _, _)
addContracts(db, fcs, nContracts, inputs, outputs, fees, blockDBID) ==
    IF fcs = <<>> THEN [err |-> FALSE, db |-> db, active |-> 0]
    ELSE The({
            IF r.err THEN [err |-> TRUE, db |-> r.db, active |-> 0]
            ELSE The({[rest EXCEPT !.active = @ + 1] :
                      rest \in {addContracts(r.db, Tail(fcs), nContracts, inputs, outputs,
                                             fees, blockDBID)}}) :
            r \in {addActiveContract(db, Head(fcs).ID, Head(fcs), blockDBID, rev.valid, rev.missed) :
                   rev \in {initialRevenue(Head(fcs), nContracts, inputs, outputs, fees)}}})

\* the loop over txn.FileContractRevisions: the second new valid / missed
\* output, zero for a side with fewer than two outputs
RECURSIVE reviseContracts(_, _)
reviseContracts(db, fcrs) ==
    IF fcrs = <<>> THEN Ok(db)
    ELSE The({
            IF r.err THEN r ELSE reviseContracts(r.db, Tail(fcrs)) :
            r \in {reviseContract(db, fcr.ParentID,
                                  IF Len(fcr.NewValidProofOutputs) >= 2
                                  THEN fcr.NewValidProofOutputs[2] ELSE 0,
                                  IF Len(fcr.NewMissedProofOutputs) >= 2
                                  THEN fcr.NewMissedProofOutputs[2] ELSE 0) :
                   fcr \in {Head(fcrs)}}})

\* the loop over txn.StorageProofs
RECURSIVE proveContracts(_, _, _)
proveContracts(db, proofs, blockDBID) ==
    IF proofs = <<>> THEN Ok(db)
    ELSE The({
            IF r.err THEN r ELSE proveContracts(r.db, Tail(proofs), blockDBID) :
            r \in {proveContract(db, Head(proofs).ParentID, blockDBID)}})

\* the loop over applied.Transactions
RECURSIVE applyTransactions(_, _, _, _)
applyTransactions(db, txns, blockDBID, spent) ==
    IF txns = <<>> THEN [err |-> FALSE, db |-> db, active |-> 0]
    ELSE The({
        IF ~ ins.ok THEN [err |-> TRUE, db |-> db, active |-> 0]
        ELSE The({
            IF a.err THEN [err |-> TRUE, db |-> a.db, active |-> 0]
            ELSE The({
                IF b.err THEN [err |-> TRUE, db |-> b.db, active |-> 0]
                ELSE The({
                    IF c.err THEN [err |-> TRUE, db |-> c.db, active |-> 0]
                    ELSE The({[rest EXCEPT !.active = @ + a.active] :
                              rest \in {applyTransactions(c.db, Tail(txns), blockDBID, spent)}}) :
                    c \in {proveContracts(b.db, txn.StorageProofs, blockDBID)}}) :
                b \in {reviseContracts(a.db, txn.FileContractRevisions)}}) :
            a \in {addContracts(db, txn.FileContracts, Len(txn.FileContracts), ins.values,
                                txn.SiacoinOutputs, sum(txn.MinerFees), blockDBID)}}) :
        txn \in {Head(txns)}, ins \in {inputValues(Head(txns).SiacoinInputs, spent)}})

\* the maturation pass of one applied block: the contracts matured at
\* height - maturityDelay, their counts, and the revenue and payout totals
maturation(db, height, timestamp) ==
    IF height > maturityDelay
    THEN LET rates == getExchangeRate(db, timestamp)
             maturedHeight == height - maturityDelay
             expiredContracts == missedContracts(db, maturedHeight)
             successfulContracts == validContracts(db, maturedHeight)
             all == db.active_contracts
         IN  [err |-> rates.err,
              valid |-> Cardinality(successfulContracts),
              missed |-> Cardinality(expiredContracts),
              totalRevenue |->
                  ValuesAdd(SumValues(expiredContracts, [c \in all |-> MissedRevenue(c, rates)]),
                            SumValues(successfulContracts, [c \in all |-> ValidRevenue(c, rates)])),
              totalPayout |->
                  ValuesAdd(SumValues(expiredContracts, [c \in all |-> MissedPayout(c, rates)]),
                            SumValues(successfulContracts, [c \in all |-> ValidPayout(c, rates)]))]
    ELSE [err |-> FALSE, valid |-> 0, missed |-> 0,
          totalRevenue |-> ZeroValues, totalPayout |-> ZeroValues]

\* one iteration of the loop over cc.AppliedBlocks
applyBlock(db, applied, height, spent) ==
    The({
        IF ab.err THEN Fail(ab.db)
        ELSE The({
            IF tr.err THEN Fail(tr.db)
            ELSE The({
                IF m.err THEN Fail(tr.db)
                ELSE updateContractStats(tr.db, tr.active - m.valid - m.missed, m.valid, m.missed,
                                         m.totalRevenue, m.totalPayout, applied.Timestamp) :
                m \in {maturation(tr.db, height, applied.Timestamp)}}) :
            tr \in {applyTransactions(ab.db, applied.Transactions, ab.id, spent)}}) :
        ab \in {addBlock(db, applied.ID, height, applied.Timestamp)}})

RECURSIVE applyBlocks(_, _, _, _)
applyBlocks(db, blocks, height, spent) ==
    IF blocks = <<>> THEN Ok(db)
    ELSE The({
            IF r.err THEN r ELSE applyBlocks(r.db, Tail(blocks), height + 1, spent) :
            r \in {applyBlock(db, Head(blocks), height, spent)}})

\* the loop over cc.RevertedBlocks
RECURSIVE revertBlocks(_, _)
revertBlocks(db, blocks) ==
    IF blocks = <<>> THEN Ok(db)
    ELSE The({
            IF r.err THEN r ELSE revertBlocks(r.db, Tail(blocks)) :
            r \in {revertBlock(db, Head(blocks).ID)}})

processChangeFirstHeightLow(db, cc) ==
    The({
        IF reverted.err THEN reverted
        ELSE The({
            IF applied.err THEN applied
            ELSE The({
                IF swept.err THEN swept
                ELSE setLastChange(swept.db, cc.ID, cc.BlockHeight) :
                swept \in {IF cc.BlockHeight > maturityDelay
                           THEN deleteExpired(applied.db, cc.BlockHeight - maturityDelay)
                           ELSE Ok(applied.db)}}) :
            applied \in {applyBlocks(reverted.db, cc.AppliedBlocks,
                                     cc.BlockHeight - Len(cc.AppliedBlocks), spent)}}) :
        reverted \in {revertBlocks(db, cc.RevertedBlocks)},
        spent \in {spentUtxoValues(cc)}})

\* the function ProcessConsensusChange runs inside the transaction: revert,
\* apply, sweep, move the cursor; db of the result is the transaction's
\* state where it stopped
processChange(db, cc) ==
    The({
        IF reverted.err THEN reverted
        ELSE The({
            IF applied.err THEN applied
            ELSE The({
                IF swept.err THEN swept
                ELSE setLastChange(swept.db, cc.ID, cc.BlockHeight) :
                swept \in {IF cc.BlockHeight > maturityDelay
                           THEN deleteExpired(applied.db, cc.BlockHeight - maturityDelay)
                           ELSE Ok(applied.db)}}) :
            applied \in {applyBlocks(reverted.db, cc.AppliedBlocks,
                                     cc.BlockHeight - Len(cc.AppliedBlocks) + 1, spent)}}) :
        reverted \in {revertBlocks(db, cc.RevertedBlocks)},
        spent \in {spentUtxoValues(cc)}})

\* ------------------------------------------------------------------ transactions

\* the retry budget of Store.transaction ("retried up to 10 times")
retryAttempts == 10

doTransactionNoRollback(db, fn, commitFails) ==
    IF fn.err THEN [err |-> TRUE, db |-> fn.db]
    ELSE IF commitFails THEN [err |-> TRUE, db |-> db]
    ELSE [err |-> FALSE, db |-> fn.db]

\* doTransaction: begin, run fn, commit; fn is the outcome of the function
\* on the database as it is. The deferred Rollback discards the
\* transaction's writes when fn or Commit returns an error
doTransaction(db, fn, commitFails) ==
    IF fn.err THEN [err |-> TRUE, db |-> db]
    ELSE IF commitFails THEN [err |-> TRUE, db |-> db]
    ELSE [err |-> FALSE, db |-> fn.db]

\* Store.transaction: attempts 1..retryAttempts; the first `busy` attempts
\* end in a database-busy error and are repeated, any other outcome returns
RECURSIVE transactionFrom(_, _, _, _, _)
transactionFrom(i, db, fn, busy, commitFails) ==
    IF i > retryAttempts THEN [err |-> TRUE, db |-> db]
    ELSE IF i <= busy THEN transactionFrom(i + 1, db, fn, busy, commitFails)
    ELSE doTransaction(db, fn, commitFails)

transaction(db, fn, busy, commitFails) == transactionFrom(1, db, fn, busy, commitFails)

\* ------------------------------------------------------------------ calendar

\* the calendar of the stats provider and the API, scaled down: instants are
\* ticks, an hour is TicksPerHour ticks, a day HoursPerDay hours, a week
\* DaysPerWeek days beginning on a Sunday (day 0 is one), months are
\* alternately LongMonth and ShortMonth days, a year is MonthsPerYear months
TicksPerHour == 2
HoursPerDay == 2
DaysPerWeek == 2
LongMonth == 3
ShortMonth == 2
MonthsPerYear == 2

Hour == TicksPerHour
Day == HoursPerDay * Hour

\* time.Time{}: the zero instant, what a form value that is absent decodes to
ZeroTime == -100000

PeriodHourly == "hourly"
PeriodDaily == "daily"
PeriodWeekly == "weekly"
PeriodMonthly == "monthly"

\* t.Weekday(), Sunday = 0
Weekday(t) == (t \div Day) % DaysPerWeek

\* time.Date(y, m, d, 0, 0, 0, 0, loc) for the date of t
Midnight(t) == t - (t % Day)

\* the day on which month m begins, and the month a day falls in
MonthStartDay(m) ==
    (m \div 2) * (LongMonth + ShortMonth) + (IF m % 2 = 1 THEN LongMonth ELSE 0)

MonthOf(d) ==
    2 * (d \div (LongMonth + ShortMonth))
    + (IF d % (LongMonth + ShortMonth) >= LongMonth THEN 1 ELSE 0)

\* time.Date(y, m, 1, 0, 0, 0, 0, loc) for the month of t
FirstOfMonth(t) == MonthStartDay(MonthOf(t \div Day)) * Day

\* t.AddDate(0, 0, n)
AddDays(t, n) == t + n * Day

\* t.AddDate(0, n, 0): the same day of the month and time of day n months
\* on; a day past the end of that month runs over into the next
AddMonths(t, n) ==
    (MonthStartDay(MonthOf(t \div Day) + n)
        + ((t \div Day) - MonthStartDay(MonthOf(t \div Day)))) * Day
    + (t % Day)

\* t.AddDate(n, 0, 0)
AddYears(t, n) == AddMonths(t, n * MonthsPerYear)

\* stats.NormalizePeriod
NormalizePeriod(timestamp, period) ==
    CASE period = PeriodHourly -> timestamp - (timestamp % Hour)
      [] period = PeriodDaily -> Midnight(timestamp)
      [] period = PeriodWeekly -> AddDays(Midnight(timestamp), - Weekday(timestamp))
      [] period = PeriodMonthly -> FirstOfMonth(timestamp)
      [] OTHER -> timestamp

\* nextPeriod; the default branch panics and is never reached from Periods'
\* callers, which pass one of the four periods
nextPeriod(timestamp, period) ==
    CASE period = PeriodHourly -> timestamp + Hour
      [] period = PeriodDaily -> AddDays(timestamp, 1)
      [] period = PeriodWeekly -> AddDays(timestamp, DaysPerWeek)
      [] period = PeriodMonthly -> AddMonths(timestamp, 1)

\* ------------------------------------------------------------------ stats provider

\* the zero stats.ContractState with its Timestamp set
ZeroState(timestamp) ==
    [Active |-> 0, Valid |-> 0, Missed |-> 0, Revenue |-> ZeroValues, Payout |-> ZeroValues,
     Timestamp |-> timestamp]

periodValuesOfFirstRow(store, start, end, period) ==
    LET rows == {r \in store.hourly_contract_stats : start <= r.date_created /\ r.date_created <= end}
        keys == {NormalizePeriod(r.date_created, period) : r \in rows}
    IN  [k \in keys |->
            LET bucket == {r \in rows : NormalizePeriod(r.date_created, period) = k}
                first == CHOOSE r \in bucket : \A x \in bucket : r.date_created <= x.date_created
            IN  [Active |-> first.active_contracts, Valid |-> first.valid_contracts,
                 Missed |-> first.missed_contracts, Revenue |-> first.revenue,
                 Payout |-> first.payout, Timestamp |-> k]]

\* the map Periods fills from the rows BETWEEN start AND end in ascending
\* order of date_created: each row is stored under its normalized timestamp,
\* a later row of the same bucket replacing an earlier one
periodValues(store, start, end, period) ==
    LET rows == {r \in store.hourly_contract_stats : start <= r.date_created /\ r.date_created <= end}
        keys == {NormalizePeriod(r.date_created, period) : r \in rows}
    IN  [k \in keys |->
            LET bucket == {r \in rows : NormalizePeriod(r.date_created, period) = k}
                last == CHOOSE r \in bucket : \A x \in bucket : x.date_created <= r.date_created
            IN  [Active |-> last.active_contracts, Valid |-> last.valid_contracts,
                 Missed |-> last.missed_contracts, Revenue |-> last.revenue,
                 Payout |-> last.payout, Timestamp |-> k]]

RECURSIVE periodStepsThroughEnd(_, _, _)
periodStepsThroughEnd(t, end, period) ==
    IF t <= end THEN <<t>> \o periodStepsThroughEnd(nextPeriod(t, period), end, period) ELSE <<>>

\* "build the empty array": for t := start; t.Before(end); t = nextPeriod(t, period)
RECURSIVE periodSteps(_, _, _)
periodSteps(t, end, period) ==
    IF t < end THEN <<t>> \o periodSteps(nextPeriod(t, period), end, period) ELSE <<>>

\* "fill in the values from the database": the stored value of the bucket,
\* else the previous element, with the Timestamp set to the step's
RECURSIVE fillPeriods(_, _, _)
fillPeriods(steps, values, prev) ==
    IF steps = <<>> THEN <<>>
    ELSE The({<<v>> \o fillPeriods(Tail(steps), values, v) :
              v \in {[(IF Head(steps) \in DOMAIN values THEN values[Head(steps)] ELSE prev)
                        EXCEPT !.Timestamp = Head(steps)]}})

\* Store.Periods; failed says whether the transaction returned an error (no
\* value is read then). state[0] of an empty array panics
Periods(store, start, end, period, failed) ==
    The({IF steps = <<>>
         THEN [panic |-> TRUE, err |-> failed, state |-> <<>>]
         ELSE [panic |-> FALSE, err |-> failed,
               state |-> fillPeriods(steps,
                                     IF failed THEN <<>> ELSE periodValues(store, start, end, period),
                                     ZeroState(steps[1]))] :
         steps \in {periodSteps(start, end, period)}})

\* ------------------------------------------------------------------ api

\* what a handler leaves behind: the status of the first c.Error or c.Encode
\* (0 while nothing is written), whether c.Encode ran and with what, the
\* calls made to the StatProvider, and whether the handler panicked
Response(status, encoded, body, calls, panic) ==
    [status |-> status, encoded |-> encoded, body |-> body, calls |-> calls, panic |-> panic]

Call(fn, start, end, period) == [fn |-> fn, start |-> start, end |-> end, period |-> period]

\* handleGetRevenue: GET /metrics/revenue
handleGetRevenue(store, timestamp, now, failed) ==
    The({IF failed \/ MetricsNoRows(store, ts)
         THEN Response(500, FALSE, <<>>, <<Call("Metrics", ts, ts, "")>>, FALSE)
         ELSE Response(200, TRUE, [Timestamp |-> ts] @@ Metrics(store, ts),
                       <<Call("Metrics", ts, ts, "")>>, FALSE) :
         ts \in {IF timestamp = ZeroTime THEN now ELSE timestamp}})

\* the switch of handleGetRevenuePeriods: start and end moved to the
\* boundaries of the period; ok is FALSE for a period it does not know
normalizeRange(start, end, period) ==
    CASE period = PeriodHourly ->
            [ok |-> TRUE, start |-> start - (start % Hour),
             end |-> (end + Hour) - ((end + Hour) % Hour)]
      [] period = PeriodDaily ->
            [ok |-> TRUE, start |-> Midnight(start), end |-> AddDays(Midnight(end), 1)]
      [] period = PeriodWeekly ->
            [ok |-> TRUE, start |-> AddDays(Midnight(start), - Weekday(start)),
             end |-> AddDays(Midnight(end), DaysPerWeek - Weekday(end))]
      [] period = PeriodMonthly ->
            [ok |-> TRUE, start |-> FirstOfMonth(start), end |-> AddMonths(FirstOfMonth(end), 1)]
      [] OTHER -> [ok |-> FALSE, start |-> start, end |-> end]

\* handleGetRevenuePeriods: GET /metrics/revenue/:period. "end must be after
\* start" writes 400 and does not return, so the status stays 400 whatever
\* follows
handleGetRevenuePeriods(store, period, start, end, failed) ==
    IF start = ZeroTime \/ end = ZeroTime
    THEN Response(400, FALSE, <<>>, <<>>, FALSE)
    ELSE The({
        IF ~ range.ok
        THEN Response(400, FALSE, <<>>, <<>>, FALSE)
        ELSE The({
            IF revenue.panic
            THEN Response(written, FALSE, <<>>,
                          <<Call("Periods", range.start, range.end, period)>>, TRUE)
            ELSE IF revenue.err
            THEN Response(IF written = 0 THEN 500 ELSE written, FALSE, <<>>,
                          <<Call("Periods", range.start, range.end, period)>>, FALSE)
            ELSE Response(IF written = 0 THEN 200 ELSE written, TRUE, revenue.state,
                          <<Call("Periods", range.start, range.end, period)>>, FALSE) :
            revenue \in {Periods(store, range.start, range.end, period, failed)}}) :
        range \in {normalizeRange(start, end, period)},
        written \in {IF end < start THEN 400 ELSE 0}})

\* the offsets, in days before now, at which handleGetWeb3Index reads the
\* cumulative revenue: now, oneDayAgo, ..., ninetyDaysAgo
web3IndexOffsets == <<0, 1, 2, 7, 14, 30, 60, 90>>

web3IndexDaysCumulative(days) ==
    [i \in 1 .. Len(days) - 1 |->
        [Date |-> days[Len(days) + 1 - i].Timestamp,
         Revenue |-> days[Len(days) + 1 - i].Revenue.USD]]

\* the loop `for i := len(days) - 1; i > 0; i--`: one entry per daily row but
\* the first, latest first, dated as the row and carrying the growth of the
\* USD revenue over the row before it
web3IndexDays(days) ==
    [i \in 1 .. Len(days) - 1 |->
        [Date |-> days[Len(days) + 1 - i].Timestamp,
         Revenue |-> days[Len(days) + 1 - i].Revenue.USD - days[Len(days) - i].Revenue.USD]]

\* handleGetWeb3Index: GET /integrations/web3index/revenue. failed names the
\* StatProvider method whose transaction fails, "" for none
handleGetWeb3Index(store, now, failed) ==
    The({
        IF failed = "Metrics"
        THEN Response(500, FALSE, <<>>, <<Call("Metrics", now, now, "")>>, FALSE)
        ELSE IF missing # {}
        THEN Response(500, FALSE, <<>>,
                      [i \in 1 .. (CHOOSE k \in missing : \A j \in missing : k <= j) |->
                          Call("Metrics", AddDays(now, - web3IndexOffsets[i]),
                               AddDays(now, - web3IndexOffsets[i]), "")],
                      FALSE)
        ELSE The({
            IF days.err
            THEN Response(500, FALSE, <<>>, probes \o <<Call("Periods", start, now, PeriodDaily)>>,
                          FALSE)
            ELSE Response(200, TRUE,
                          [Days |-> web3IndexDays(days.state),
                           Revenue |-> [i \in 1 .. Len(web3IndexOffsets) |->
                                          Metrics(store, AddDays(now, - web3IndexOffsets[i])).Revenue.USD]],
                          probes \o <<Call("Periods", start, now, PeriodDaily)>>, FALSE) :
            days \in {Periods(store, start, now, PeriodDaily, failed = "Periods")},
            probes \in {[i \in 1 .. Len(web3IndexOffsets) |->
                            Call("Metrics", AddDays(now, - web3IndexOffsets[i]),
                                 AddDays(now, - web3IndexOffsets[i]), "")]}}) :
        missing \in {{i \in 1 .. Len(web3IndexOffsets) :
                        MetricsNoRows(store, AddDays(now, - web3IndexOffsets[i]))}},
        start \in {AddDays(AddYears(now, -1), - (Weekday(AddYears(now, -1)) + 1))}})

\* ------------------------------------------------------------------ chain node

\* the value of each unspent output the modelled transactions spend
UtxoValue ==
    [id \in {"u1", "u2r", "u2h"} |->
        IF id = "u1" THEN 460 ELSE IF id = "u2r" THEN 260 ELSE 200]

\* a formation as the renter's wallet builds it: c1 is funded by one input
\* (no split is found), c2 is a renewal funded by a renter and a host input
FormTxn(c, h) ==
    [SiacoinInputs |-> IF c = "c1" THEN <<"u1">> ELSE <<"u2r", "u2h">>,
     SiacoinOutputs |-> <<>>,
     MinerFees |-> <<10>>,
     FileContracts |-> <<[ID |-> c,
                          ValidProofOutputs |-> <<100, 300>>,
                          MissedProofOutputs |-> <<100, 300, 0>>,
                          WindowEnd |-> h + WindowLen]>>,
     FileContractRevisions |-> <<>>,
     StorageProofs |-> <<>>]

\* a revision moving 50 to the host on success and burning 10 on failure
ReviseTxn(c) ==
    [SiacoinInputs |-> <<>>, SiacoinOutputs |-> <<>>, MinerFees |-> <<>>,
     FileContracts |-> <<>>,
     FileContractRevisions |-> <<[ParentID |-> c,
                                  NewValidProofOutputs |-> <<50, 350>>,
                                  NewMissedProofOutputs |-> <<50, 290, 60>>]>>,
     StorageProofs |-> <<>>]

ProofTxn(c) ==
    [SiacoinInputs |-> <<>>, SiacoinOutputs |-> <<>>, MinerFees |-> <<>>,
     FileContracts |-> <<>>, FileContractRevisions |-> <<>>,
     StorageProofs |-> <<[ParentID |-> c]>>]

\* the height at which contract c was formed on chain `pre`, 0 when it was not
FormedAt(pre, c) ==
    LET hs == {h \in 1 .. Len(pre) :
                 \E i \in 1 .. Len(pre[h].Transactions) :
                    \E k \in 1 .. Len(pre[h].Transactions[i].FileContracts) :
                        pre[h].Transactions[i].FileContracts[k].ID = c}
    IN  IF hs = {} THEN 0 ELSE Max(hs)

ProvenOn(pre, c) ==
    \E h \in 1 .. Len(pre) :
        \E i \in 1 .. Len(pre[h].Transactions) :
            \E k \in 1 .. Len(pre[h].Transactions[i].StorageProofs) :
                pre[h].Transactions[i].StorageProofs[k].ParentID = c

\* the transaction lists a valid block at height h on top of `pre` may hold:
\* a contract id is formed once, revised before its proof window opens and
\* proven inside the window
BlockContents(pre, h) ==
    LET unformed == {c \in ContractIDs : FormedAt(pre, c) = 0}
        revisable == {c \in ContractIDs :
                        FormedAt(pre, c) # 0 /\ h < FormedAt(pre, c) + WindowLen - 1}
        provable == {c \in ContractIDs :
                        /\ FormedAt(pre, c) # 0
                        /\ ~ ProvenOn(pre, c)
                        /\ h >= FormedAt(pre, c) + WindowLen - 1
                        /\ h < FormedAt(pre, c) + WindowLen}
    IN  {<<>>}
        \cup {<<FormTxn(c, h)>> : c \in unformed}
        \cup (IF unformed = ContractIDs THEN {<<FormTxn("c1", h), FormTxn("c2", h)>>} ELSE {})
        \cup {<<FormTxn(c, h), ReviseTxn(c)>> : c \in unformed}
        \cup {<<ReviseTxn(c)>> : c \in revisable}
        \cup {<<ProofTxn(c)>> : c \in provable}

\* timestamps drift by at most one tick from the parent block's
BlockTimes(pre) ==
    LET prev == IF pre = <<>> THEN 1 ELSE pre[Len(pre)].Timestamp
    IN  {t \in 1 .. MaxTime : Abs(t - prev) <= 1}

\* every way to extend chain `pre` by n blocks; ids are assigned later
RECURSIVE Extensions(_, _)
Extensions(pre, n) ==
    IF n = 0 THEN {<<>>}
    ELSE UNION {
            {<<b>> \o rest : rest \in Extensions(Append(pre, b), n - 1)} :
            b \in {[ID |-> 0, Timestamp |-> t, Transactions |-> txns] :
                     t \in BlockTimes(pre), txns \in BlockContents(pre, Len(pre) + 1)}}

WithIDs(blocks, firstID) ==
    [i \in 1 .. Len(blocks) |-> [blocks[i] EXCEPT !.ID = firstID + i - 1]]

\* the siacoin output diffs of the applied blocks: every spent output
DiffsOf(blocks) ==
    {[Direction |-> "DiffRevert", ID |-> id, Value |-> UtxoValue[id]] :
        id \in {blocks[b].Transactions[i].SiacoinInputs[k] :
                  <<b, i, k>> \in {x \in (1 .. Len(blocks)) \X (1 .. 2) \X (1 .. 2) :
                      /\ x[2] <= Len(blocks[x[1]].Transactions)
                      /\ x[3] <= Len(blocks[x[1]].Transactions[x[2]].SiacoinInputs)}}}

\* reverted blocks are listed tip first
Reversed(seq) == [i \in 1 .. Len(seq) |-> seq[Len(seq) + 1 - i]]

\* ------------------------------------------------------------------ state

VARIABLES
    db,         \* the committed Store
    chain,      \* the node's current chain, chain[h] the block at height h
    published,  \* how many changes, blocks and forks the node has published
    cc,         \* the consensus change the node published last
    sub,        \* number of the next change the subscription delivers
    status,     \* "running", or "panicked" after a failed change
    formations, \* contract formations applied by committed changes
    committed,  \* number of the change whose transaction committed last, 0 for none
    commits,    \* how many transactions of ProcessConsensusChange committed
    request,    \* the HTTP request served last
    response,   \* what its handler answered, or has gathered so far
    snapshots,  \* the committed Store states the request in service has met
    estimate,   \* the transaction the estimator was handed, and what it returned
    attempt,    \* the Store.transaction call in progress: attempt number, position
    feed        \* the market feed task: position, cursors, the hours it stored

vars == <<db, chain, published, cc, sub, status, formations, committed, commits,
          request, response, snapshots, estimate, attempt, feed>>

\* what the database lets one ProcessConsensusChange call meet: how many
\* attempts hit a busy database, and whether Commit fails
Outcomes ==
    {<<0, FALSE>>, <<1, FALSE>>, <<retryAttempts, FALSE>>, <<0, TRUE>>}

\* Store.AddMarketData: upsert of the rate row at timestamp
AddMarketData(store, usd, eur, btc, timestamp) ==
    [store EXCEPT !.market_data =
        {r \in @ : r.date_created # timestamp}
        \cup {[date_created |-> timestamp, usd_rate |-> usd, eur_rate |-> eur, btc_rate |-> btc]}]

\* the id of the i-th change the node published
ChangeID(i) == 100 + i

\* ConsensusSetSubscribe(db, lastChange): the node sends every change after
\* lastChange, all of them for ConsensusChangeBeginning
SubscribeFrom(n, lastChange) ==
    IF lastChange = ConsensusChangeBeginning THEN 1
    ELSE (CHOOSE i \in 1 .. n : ChangeID(i) = lastChange) + 1

\* the file contracts formed by the transactions of one block
RECURSIVE FormationsIn(_)
FormationsIn(txns) ==
    IF txns = <<>> THEN 0 ELSE Len(Head(txns).FileContracts) + FormationsIn(Tail(txns))

\* the file contracts formed by the applied blocks of a change
RECURSIVE FormationsInBlocks(_)
FormationsInBlocks(blocks) ==
    IF blocks = <<>> THEN 0
    ELSE FormationsIn(Head(blocks).Transactions) + FormationsInBlocks(Tail(blocks))

CountFormations(change) == FormationsInBlocks(change.AppliedBlocks)

\* before any request is served
NoRequest == [n |-> 0, route |-> "", period |-> "", start |-> ZeroTime, end |-> ZeroTime,
              now |-> ZeroTime, failed |-> ""]
NoResponse == Response(0, FALSE, <<>>, <<>>, FALSE)

\* no transaction has been handed to the estimator
NoEstimate == [pc |-> "idle"]

\* no Store.transaction call is in progress
NoAttempt == [pc |-> "idle"]

\* the market feed task has not been started
NoFeed == [pc |-> "idle"]

NoChange ==
    [ID |-> 0, BlockHeight |-> 0, RevertedBlocks |-> <<>>, AppliedBlocks |-> <<>>,
     AppliedDiffs |-> {}]

Init ==
    /\ db = EmptyStore
    /\ chain = <<>>
    /\ published = [changes |-> 0, blocks |-> 0, forks |-> 0]
    /\ cc = NoChange
    /\ sub = 1
    /\ status = "running"
    /\ formations = 0
    /\ committed = 0
    /\ commits = 0
    /\ request = NoRequest
    /\ response = NoResponse
    /\ snapshots = {}
    /\ estimate = NoEstimate
    /\ attempt = NoAttempt
    /\ feed = NoFeed

\* Store.ProcessConsensusChange(change) for the change numbered idx: the
\* whole transaction; an error panics the process
Deliver(change, idx) ==
    \E fn \in {processChange(db, change)}, o \in Outcomes :
        \E res \in {transaction(db, fn, o[1], o[2])} :
            /\ db' = res.db
            /\ status' = IF res.err THEN "panicked" ELSE "running"
            /\ sub' = IF res.err THEN sub ELSE idx + 1
            /\ formations' = IF res.err THEN formations
                             ELSE formations + CountFormations(change)
            /\ committed' = IF res.err THEN committed ELSE idx
            /\ commits' = IF res.err THEN commits ELSE commits + 1

\* the node publishes a change that reverts the last k blocks of its chain
\* and applies the blocks ext, and hands it to the indexer
Publish(k, ext) ==
    \E base \in {SubSeq(chain, 1, Len(chain) - k)},
       applied \in {WithIDs(ext, published.blocks + 1)} :
        \E change \in {[ID |-> ChangeID(published.changes + 1),
                        BlockHeight |-> Len(base) + Len(ext),
                        RevertedBlocks |-> Reversed(SubSeq(chain, Len(base) + 1, Len(chain))),
                        AppliedBlocks |-> applied,
                        AppliedDiffs |-> DiffsOf(applied)]} :
            /\ chain' = base \o applied
            /\ published' = [changes |-> published.changes + 1,
                             blocks |-> published.blocks + Len(ext),
                             forks |-> published.forks + (IF k > 0 THEN 1 ELSE 0)]
            /\ cc' = change
            /\ Deliver(change, published.changes + 1)

\* the node accepts a block on top of its chain
Extend ==
    /\ status = "running"
    /\ sub = published.changes + 1
    /\ Len(chain) < MaxHeight
    /\ published.blocks < MaxBlocks
    /\ \E ext \in Extensions(chain, 1) : Publish(0, ext)
    /\ UNCHANGED <<request, response, snapshots, estimate, attempt, feed>>

\* the node switches to a fork: the last k blocks are reverted and n >= k
\* blocks of the fork are applied, in one change
Reorg ==
    /\ status = "running"
    /\ sub = published.changes + 1
    /\ published.forks < MaxReorgs
    /\ \E k \in 1 .. MaxReverted, g \in 0 .. MaxForkGrowth :
        /\ k <= Len(chain)
        /\ Len(chain) + g <= MaxHeight
        /\ published.blocks + k + g <= MaxBlocks
        /\ \E ext \in Extensions(SubSeq(chain, 1, Len(chain) - k), k + g) : Publish(k, ext)
    /\ UNCHANGED <<request, response, snapshots, estimate, attempt, feed>>

\* after a restart the node delivers the change past the resume cursor
Redeliver ==
    /\ status = "running"
    /\ sub = published.changes
    /\ Deliver(cc, sub)
    /\ UNCHANGED <<chain, published, cc, request, response, snapshots, estimate, attempt, feed>>

\* the change that was committed last is handed to the indexer once more
Replay ==
    /\ status = "running"
    /\ sub = published.changes + 1
    /\ published.changes > 0
    /\ Deliver(cc, published.changes)
    /\ UNCHANGED <<chain, published, cc, request, response, snapshots, estimate, attempt, feed>>

\* the process is restarted: main reads LastChange and subscribes from it
Restart ==
    /\ status' = "running"
    /\ sub' = SubscribeFrom(published.changes, LastChange(db))
    /\ UNCHANGED <<db, chain, published, cc, formations, committed, commits, request, response,
                    snapshots, estimate, attempt, feed>>

\* the market feed stores its first rate
MarketFeed ==
    /\ status = "running"
    /\ db.market_data = {}
    /\ db' = AddMarketData(db, 2, 3, 5, 1)
    /\ UNCHANGED <<chain, published, cc, sub, status, formations, committed, commits,
                    request, response, snapshots, estimate, attempt, feed>>

Next ==
    \/ Extend
    \/ Reorg
    \/ Redeliver
    \/ Replay
    \/ Restart
    \/ MarketFeed

Spec == Init /\ [][Next]_vars

\* ------------------------------------------------------------------ deep reorganisation

\* most blocks reverted by one consensus change of a deep reorganisation
DeepReverted == 2
\* the height of the chain the indexer has processed when it happens
DeepHeight == 3

\* the change that applies block h of `blocks` on top of the blocks below it
ChangeOf(blocks, h) ==
    [ID |-> ChangeID(h),
     BlockHeight |-> h,
     RevertedBlocks |-> <<>>,
     AppliedBlocks |-> <<blocks[h]>>,
     AppliedDiffs |-> DiffsOf(<<blocks[h]>>)]

\* the Store after ProcessConsensusChange has run on the first n blocks of
\* `blocks`, one change per block, with the market feed's rate stored before
RECURSIVE Indexed(_, _)
Indexed(blocks, n) ==
    IF n = 0 THEN Ok(AddMarketData(EmptyStore, 2, 3, 5, 1))
    ELSE The({IF before.err THEN before ELSE processChange(before.db, ChangeOf(blocks, n)) :
              before \in {Indexed(blocks, n - 1)}})

\* the indexer has committed DeepHeight changes of one block each
DeepInit ==
    /\ chain \in {WithIDs(ext, 1) : ext \in Extensions(<<>>, DeepHeight)}
    /\ ~ Indexed(chain, DeepHeight).err
    /\ db = Indexed(chain, DeepHeight).db
    /\ published = [changes |-> DeepHeight, blocks |-> DeepHeight, forks |-> 0]
    /\ cc = ChangeOf(chain, DeepHeight)
    /\ sub = DeepHeight + 1
    /\ status = "running"
    /\ formations = FormationsInBlocks(chain)
    /\ committed = DeepHeight
    /\ commits = DeepHeight
    /\ request = NoRequest
    /\ response = NoResponse
    /\ snapshots = {}
    /\ estimate = NoEstimate
    /\ attempt = NoAttempt
    /\ feed = NoFeed

\* the node switches to a fork that leaves the chain up to DeepReverted
\* blocks below the tip
DeepReorg ==
    /\ status = "running"
    /\ sub = published.changes + 1
    /\ published.forks < MaxReorgs
    /\ \E k \in 1 .. DeepReverted, g \in 0 .. MaxForkGrowth :
        /\ k <= Len(chain)
        /\ Len(chain) + g <= MaxHeight
        /\ \E ext \in Extensions(SubSeq(chain, 1, Len(chain) - k), k + g) : Publish(k, ext)
    /\ UNCHANGED <<request, response, snapshots, estimate, attempt, feed>>

DeepNext ==
    \/ DeepReorg
    \/ Restart

DeepReorgSpec == DeepInit /\ [][DeepNext]_vars

\* ------------------------------------------------------------------ api server

\* most requests the API's client sends
MaxRequests == 1

\* the day the stored buckets of the API's store begin at
FirstDay == 8

T0 == FirstDay * Day

\* the timestamps of the rows the indexer has stored when the API is asked:
\* one long before, two on day boundaries, two in the same hour of a third
\* day, one on the boundary of a fourth
StatTimes ==
    <<AddDays(T0, -100), T0, AddDays(T0, 1), AddDays(T0, 2) + Hour, AddDays(T0, 2) + Hour + 1,
      AddDays(T0, 3)>>

\* the cumulative revenue and payout, in coins, a stored row may carry
StatTotals == {10, 15, 40}

\* a row of running totals; the counters grow with the revenue
StatRow(timestamp, total) ==
    [date_created |-> timestamp,
     active_contracts |-> 1,
     valid_contracts |-> total \div 10,
     missed_contracts |-> total % 10,
     payout |-> [SC |-> total + 100, USD |-> total + 100, EUR |-> total + 100, BTC |-> total + 100],
     revenue |-> [SC |-> total, USD |-> total, EUR |-> total, BTC |-> total]]

\* the stores the API is asked on: any of the rows present, the totals never
\* decreasing with the timestamp
ApiStores ==
    {[EmptyStore EXCEPT !.hourly_contract_stats =
            {StatRow(StatTimes[i], totals[i]) : i \in {j \in DOMAIN totals : totals[j] # 0}}] :
        totals \in {f \in [DOMAIN StatTimes -> StatTotals \cup {0}] :
                        \A i, j \in DOMAIN f : (i < j /\ f[i] # 0 /\ f[j] # 0) => f[i] <= f[j]}}

\* the instants a client passes as timestamp, start or end
QueryTimes == {T0 - 2 * Hour, T0 + Hour, AddDays(T0, 2) + Hour + 1, AddDays(T0, 4)}

\* time.Now() when a request is served: a midnight, and a tick after it
Nows == {AddDays(T0, 4), AddDays(T0, 4) + 1}

ApiInit ==
    /\ db \in ApiStores
    /\ chain = <<>>
    /\ published = [changes |-> 0, blocks |-> 0, forks |-> 0]
    /\ cc = NoChange
    /\ sub = 1
    /\ status = "running"
    /\ formations = 0
    /\ committed = 0
    /\ commits = 0
    /\ request = NoRequest
    /\ response = NoResponse
    /\ snapshots = {}
    /\ estimate = NoEstimate
    /\ attempt = NoAttempt
    /\ feed = NoFeed

ApiUnchanged ==
    UNCHANGED <<db, chain, published, cc, sub, status, formations, committed, commits, snapshots, estimate, attempt, feed>>

GetRevenue ==
    /\ request.n < MaxRequests
    /\ \E timestamp \in QueryTimes \cup {ZeroTime}, now \in Nows, failed \in BOOLEAN :
        /\ request' = [n |-> request.n + 1, route |-> "GET /metrics/revenue", period |-> "",
                       start |-> timestamp, end |-> ZeroTime, now |-> now,
                       failed |-> IF failed THEN "Metrics" ELSE ""]
        /\ response' = handleGetRevenue(db, timestamp, now, failed)
        /\ ApiUnchanged

GetRevenuePeriods ==
    /\ request.n < MaxRequests
    /\ \E period \in {PeriodHourly, PeriodDaily, PeriodWeekly, PeriodMonthly, "yearly"},
       start \in QueryTimes \cup {ZeroTime}, end \in QueryTimes \cup {ZeroTime},
       failed \in BOOLEAN :
        /\ request' = [n |-> request.n + 1, route |-> "GET /metrics/revenue/:period",
                       period |-> period, start |-> start, end |-> end, now |-> ZeroTime,
                       failed |-> IF failed THEN "Periods" ELSE ""]
        /\ response' = handleGetRevenuePeriods(db, period, start, end, failed)
        /\ ApiUnchanged

GetWeb3Index ==
    /\ request.n < MaxRequests
    /\ \E now \in Nows, failed \in {"", "Metrics", "Periods"} :
        /\ request' = [n |-> request.n + 1, route |-> "GET /integrations/web3index/revenue",
                       period |-> "", start |-> ZeroTime, end |-> ZeroTime, now |-> now,
                       failed |-> failed]
        /\ response' = handleGetWeb3Index(db, now, failed)
        /\ ApiUnchanged

ApiNext ==
    \/ GetRevenue
    \/ GetRevenuePeriods
    \/ GetWeb3Index

ApiSpec == ApiInit /\ [][ApiNext]_vars

\* ------------------------------------------------------------------ api server and indexer

\* most consensus changes the indexer commits while the API is serving
MaxWrites == 1

\* one StatProvider call of handleGetWeb3Index on the store as it is when the
\* call is made: resp is what the handler has gathered so far. Each call is a
\* Store.transaction of its own (Store.Metrics, Store.Periods)
web3IndexCall(store, now, resp) ==
    The({
        IF k <= Len(web3IndexOffsets)
        THEN The({
            IF MetricsNoRows(store, t)
            THEN Response(500, FALSE, <<>>, Append(resp.calls, Call("Metrics", t, t, "")), FALSE)
            ELSE Response(0, FALSE, Append(resp.body, Metrics(store, t).Revenue.USD),
                          Append(resp.calls, Call("Metrics", t, t, "")), FALSE) :
            t \in {AddDays(now, - web3IndexOffsets[k])}})
        ELSE The({
            Response(200, TRUE,
                     [Days |-> web3IndexDays(Periods(store, start, now, PeriodDaily, FALSE).state),
                      Revenue |-> resp.body],
                     Append(resp.calls, Call("Periods", start, now, PeriodDaily)), FALSE) :
            start \in {AddDays(AddYears(now, -1), - (Weekday(AddYears(now, -1)) + 1))}}) :
        k \in {Len(resp.calls) + 1}})

\* a handler is between two of its StatProvider calls
InService == request.n > 0 /\ response.status = 0 /\ ~ response.panic

\* the stores the API is serving from when the indexer is running beside it
ServeStores ==
    {S \in ApiStores :
        \A r \in S.hourly_contract_stats :
            r.date_created \in {AddDays(T0, -100), T0, AddDays(T0, 1), AddDays(T0, 3)}}

\* the timestamps of the blocks the indexer applies while the API is serving
WriteTimes == {AddDays(T0, 1), AddDays(T0, 3)}

ServeInit ==
    /\ db \in ServeStores
    /\ chain = <<>>
    /\ published = [changes |-> 0, blocks |-> 0, forks |-> 0]
    /\ cc = NoChange
    /\ sub = 1
    /\ status = "running"
    /\ formations = 0
    /\ committed = 0
    /\ commits = 0
    /\ request = NoRequest
    /\ response = NoResponse
    /\ snapshots = {}
    /\ estimate = NoEstimate
    /\ attempt = NoAttempt
    /\ feed = NoFeed

ServeUnchanged ==
    UNCHANGED <<chain, published, cc, sub, status, formations, committed, estimate, attempt, feed>>

\* GET /metrics/revenue: one call of Store.Metrics
ServeRevenue ==
    /\ request.n < MaxRequests
    /\ ~ InService
    /\ \E timestamp \in QueryTimes \cup {ZeroTime}, now \in Nows :
        /\ request' = [n |-> request.n + 1, route |-> "GET /metrics/revenue", period |-> "",
                       start |-> timestamp, end |-> ZeroTime, now |-> now, failed |-> ""]
        /\ response' = handleGetRevenue(db, timestamp, now, FALSE)
    /\ snapshots' = {db}
    /\ UNCHANGED <<db, commits>>
    /\ ServeUnchanged

\* GET /metrics/revenue/:period: one call of Store.Periods
ServeRevenuePeriods ==
    /\ request.n < MaxRequests
    /\ ~ InService
    /\ \E period \in {PeriodHourly, PeriodDaily}, start \in QueryTimes, end \in QueryTimes :
        /\ request' = [n |-> request.n + 1, route |-> "GET /metrics/revenue/:period",
                       period |-> period, start |-> start, end |-> end, now |-> ZeroTime,
                       failed |-> ""]
        /\ response' = handleGetRevenuePeriods(db, period, start, end, FALSE)
    /\ snapshots' = {db}
    /\ UNCHANGED <<db, commits>>
    /\ ServeUnchanged

\* GET /integrations/web3index/revenue arrives: now := time.Now()
BeginWeb3Index ==
    /\ request.n < MaxRequests
    /\ ~ InService
    /\ \E now \in Nows :
        request' = [n |-> request.n + 1, route |-> "GET /integrations/web3index/revenue",
                    period |-> "", start |-> ZeroTime, end |-> ZeroTime, now |-> now,
                    failed |-> ""]
    /\ response' = NoResponse
    /\ snapshots' = {db}
    /\ UNCHANGED <<db, commits>>
    /\ ServeUnchanged

\* the handler of GET /integrations/web3index/revenue makes its next call
CallWeb3Index ==
    /\ InService
    /\ response' = web3IndexCall(db, request.now, response)
    /\ UNCHANGED <<db, commits, request, snapshots, estimate, attempt, feed>>
    /\ ServeUnchanged

\* the indexer commits a change whose block, at one of WriteTimes, forms a
\* contract and matures a proven one worth 25: the bucket update of the
\* block is the change's only write to hourly_contract_stats
IndexerCommits ==
    /\ commits < MaxWrites
    /\ \E timestamp \in WriteTimes :
        \E res \in {updateContractStats(db, 0, 1, 0, Fiat(25, [usd |-> 1, eur |-> 1, btc |-> 1]),
                                        Fiat(25, [usd |-> 1, eur |-> 1, btc |-> 1]), timestamp)} :
            /\ ~ res.err
            /\ db' = res.db
            /\ snapshots' = IF InService THEN snapshots \cup {res.db} ELSE snapshots
    /\ commits' = commits + 1
    /\ UNCHANGED <<request, response>>
    /\ ServeUnchanged

ServeNext ==
    \/ ServeRevenue
    \/ ServeRevenuePeriods
    \/ BeginWeb3Index
    \/ CallWeb3Index
    \/ IndexerCommits

ServeSpec == ServeInit /\ [][ServeNext]_vars

\* ------------------------------------------------------------------ estimator calls

\* most siacoin inputs and outputs of a transaction handed to the estimator
MaxInputs == 2
MaxOutputs == 2

\* every sequence over S of at most n elements
SeqsUpTo(S, n) == UNION {[1 .. k -> S] : k \in 0 .. n}

\* the formations handed to the estimator: a renter input of 260 and a host
\* input of 200 in any number and order, change outputs of 40 and 20, a fee
\* of 10, and contracts with one or two valid and one or three missed outputs
EstimatorInputs ==
    [pc : {"handed"},
     inputs : SeqsUpTo({260, 200}, MaxInputs),
     outputs : SeqsUpTo({40, 20}, MaxOutputs),
     fees : {10},
     renterTarget : {110, 250},
     hostTarget : {300, 150},
     contract : {[ID |-> "c1", ValidProofOutputs |-> v, MissedProofOutputs |-> m,
                  WindowEnd |-> 1 + WindowLen] :
                    v \in {<<100>>, <<100, 300>>, <<100, 150>>},
                    m \in {<<100>>, <<100, 300, 0>>}},
     nContracts : {1, 2},
     funds : {[v |-> 0, ok |-> FALSE]},
     revenue : {[valid |-> 0, missed |-> 0]}]

EstimateInit ==
    /\ db = EmptyStore
    /\ chain = <<>>
    /\ published = [changes |-> 0, blocks |-> 0, forks |-> 0]
    /\ cc = NoChange
    /\ sub = 1
    /\ status = "running"
    /\ formations = 0
    /\ committed = 0
    /\ commits = 0
    /\ request = NoRequest
    /\ response = NoResponse
    /\ snapshots = {}
    /\ estimate \in EstimatorInputs
    /\ attempt = NoAttempt
    /\ feed = NoFeed

EstimateUnchanged ==
    UNCHANGED <<db, chain, published, cc, sub, status, formations, committed, commits,
                request, response, snapshots, attempt, feed>>

\* estimateHostFunds is called with the transaction's values and two targets
EstimateHostFunds ==
    /\ estimate.pc = "handed"
    /\ estimate' = [estimate EXCEPT
                        !.pc = "estimated",
                        !.funds = estimateHostFunds(estimate.inputs, estimate.outputs,
                                                    estimate.renterTarget, estimate.hostTarget)]
    /\ EstimateUnchanged

\* the loop over txn.FileContracts computes the initial revenues of the
\* formation it is about to insert
EstimateFormation ==
    /\ estimate.pc = "handed"
    /\ estimate' = [estimate EXCEPT
                        !.pc = "formed",
                        !.revenue = initialRevenue(estimate.contract, estimate.nContracts,
                                                   estimate.inputs, estimate.outputs,
                                                   estimate.fees)]
    /\ EstimateUnchanged

EstimateNext ==
    \/ EstimateHostFunds
    \/ EstimateFormation

EstimateSpec == EstimateInit /\ [][EstimateNext]_vars

\* ------------------------------------------------------------------ transaction calls

\* most commits of other writers while one Store.transaction call is retried
MaxOtherWrites == 2

\* what one attempt can meet: the database is busy at Begin, at a statement
\* of fn or at Commit, fn or Commit fails otherwise, or nothing fails
AttemptOutcomes ==
    {"ok", "busy at begin", "busy in fn", "busy at commit", "error in fn", "error at commit"}

\* fn stopped by an error at its last statement, the cursor update: the
\* transaction holds every write before it
interrupted(store, fn) ==
    [err |-> TRUE, db |-> [fn.db EXCEPT !.global_settings = store.global_settings]]

attemptCommitsWhenBusy(store, fn, outcome) ==
    IF outcome = "busy at begin" THEN [err |-> "busy", db |-> store, ran |-> FALSE]
    ELSE IF outcome \in {"busy in fn", "error in fn"}
    THEN [err |-> IF outcome = "busy in fn" THEN "busy" ELSE "other",
          db |-> doTransaction(store, interrupted(store, fn), FALSE).db, ran |-> TRUE]
    ELSE IF fn.err THEN [err |-> "other", db |-> doTransaction(store, fn, FALSE).db, ran |-> TRUE]
    ELSE IF outcome = "busy at commit" THEN [err |-> "busy", db |-> fn.db, ran |-> TRUE]
    ELSE IF outcome = "error at commit"
    THEN [err |-> "other", db |-> doTransaction(store, fn, TRUE).db, ran |-> TRUE]
    ELSE [err |-> "nil", db |-> doTransaction(store, fn, FALSE).db, ran |-> TRUE]

\* one call of doTransaction by Store.transaction: the error it returns
\* ("nil", "busy" for a sqlite3.ErrBusy, "other"), the committed Store after
\* it, and whether fn was run
attempted(store, fn, outcome) ==
    IF outcome = "busy at begin" THEN [err |-> "busy", db |-> store, ran |-> FALSE]
    ELSE IF outcome \in {"busy in fn", "error in fn"}
    THEN [err |-> IF outcome = "busy in fn" THEN "busy" ELSE "other",
          db |-> doTransaction(store, interrupted(store, fn), FALSE).db, ran |-> TRUE]
    ELSE IF fn.err THEN [err |-> "other", db |-> doTransaction(store, fn, FALSE).db, ran |-> TRUE]
    ELSE IF outcome \in {"busy at commit", "error at commit"}
    THEN [err |-> IF outcome = "busy at commit" THEN "busy" ELSE "other",
          db |-> doTransaction(store, fn, TRUE).db, ran |-> TRUE]
    ELSE [err |-> "nil", db |-> doTransaction(store, fn, FALSE).db, ran |-> TRUE]

afterAttemptRetriesAnyError(err) ==
    IF err = "nil" THEN [pc |-> "returned", result |-> "nil"]
    ELSE [pc |-> "sleeping", result |-> "none"]

\* the body of the retry loop after doTransaction returned err: return nil,
\* return the error that is not a busy error, or sleep before the next turn
afterAttempt(err) ==
    IF err = "nil" THEN [pc |-> "returned", result |-> "nil"]
    ELSE IF err # "busy" THEN [pc |-> "returned", result |-> err]
    ELSE [pc |-> "sleeping", result |-> "none"]

\* ProcessConsensusChange is called with the first change of a chain on an
\* empty Store
TxnInit ==
    /\ db = EmptyStore
    /\ chain = <<>>
    /\ published = [changes |-> 0, blocks |-> 0, forks |-> 0]
    /\ cc = NoChange
    /\ sub = 1
    /\ status = "running"
    /\ formations = 0
    /\ committed = 0
    /\ commits = 0
    /\ request = NoRequest
    /\ response = NoResponse
    /\ snapshots = {}
    /\ estimate = NoEstimate
    /\ \E ext \in Extensions(<<>>, 1) :
        attempt = [pc |-> "calling", i |-> 1, change |-> ChangeOf(WithIDs(ext, 1), 1),
                   err |-> "none", result |-> "none", runs |-> 0, commits |-> 0,
                   others |-> 0, foreign |-> EmptyStore]
    /\ feed = NoFeed

TxnUnchanged ==
    UNCHANGED <<chain, published, cc, sub, status, formations, committed, commits,
                request, response, snapshots, estimate, feed>>

\* one turn of the loop of Store.transaction: doTransaction and the tests
\* on its error
TxnAttempt ==
    /\ attempt.pc = "calling"
    /\ \E outcome \in AttemptOutcomes :
        \E res \in {attempted(db, processChange(db, attempt.change), outcome)} :
            \E next \in {afterAttempt(res.err)} :
                /\ db' = res.db
                /\ attempt' = [attempt EXCEPT
                                !.pc = next.pc, !.result = next.result, !.err = res.err,
                                !.runs = @ + (IF res.ran THEN 1 ELSE 0),
                                !.commits = @ + (IF res.db # db THEN 1 ELSE 0)]
    /\ TxnUnchanged

\* jitterSleep returns: i++, and the loop ends after retryAttempts turns
TxnWake ==
    /\ attempt.pc = "sleeping"
    /\ attempt' = IF attempt.i < retryAttempts
                  THEN [attempt EXCEPT !.pc = "calling", !.i = @ + 1]
                  ELSE [attempt EXCEPT !.pc = "returned", !.result = "transaction failed"]
    /\ UNCHANGED db
    /\ TxnUnchanged

\* the market feed, the other writer of the Store, commits a rate while the
\* call is between two attempts
TxnOtherWriter ==
    /\ attempt.pc \in {"calling", "sleeping"}
    /\ attempt.others < MaxOtherWrites
    /\ db' = AddMarketData(db, 2, 3, 5, attempt.others + 1)
    /\ attempt' = [attempt EXCEPT
                    !.others = @ + 1,
                    !.foreign = AddMarketData(@, 2, 3, 5, attempt.others + 1)]
    /\ TxnUnchanged

TxnNext ==
    \/ TxnAttempt
    \/ TxnWake
    \/ TxnOtherWriter

TxnSpec == TxnInit /\ [][TxnNext]_vars

\* the goroutine that called Store.transaction keeps running
TxnLiveSpec == TxnSpec /\ WF_vars(TxnAttempt) /\ WF_vars(TxnWake)

\* ------------------------------------------------------------------ market feed

\* genesis.Timestamp of the network, the instant the calendar counts from
GenesisTimestamp == 0
\* "resync at least the last 3 days"
ResyncDays == 3
\* the hour of time.Now() when the task starts, counted from genesis
StartHour == 13
\* most hours that pass on the clock while the task runs
MaxHoursPassed == 1

\* t.Year()
YearOf(t) == MonthOf(t \div Day) \div MonthsPerYear

\* t.Truncate(time.Hour)
HourOf(t) == t - (t % Hour)

\* GetYearExchangeRate: the provider's rates of the year of timestamp, here
\* one at the start of each month, none of them in the future
YearRates(timestamp, now) ==
    LET first == YearOf(timestamp) * MonthsPerYear
        times == [m \in 1 .. MonthsPerYear |-> MonthStartDay(first + m - 1) * Day]
    IN  SelectSeq(times, LAMBDA t : t <= now)

\* Store.GetExchangeRate: the latest row's timestamp; ErrNoData when the
\* table is empty, another error when the read fails
GetExchangeRate(store, readFails) ==
    IF readFails THEN [err |-> "read failed", timestamp |-> ZeroTime]
    ELSE IF store.market_data = {} THEN [err |-> "ErrNoData", timestamp |-> ZeroTime]
    ELSE [err |-> "nil",
          timestamp |-> Max({r.date_created : r \in store.market_data})]

afterUpdateAlwaysAdvances(current, failed) == current + Hour

afterUpdateNeverAdvances(current, failed) == current

\* the catch-up loop's cursor after updateMarketData(store, current)
afterUpdate(current, failed) == IF failed THEN current ELSE current + Hour

catchUpDoneAnHourEarly(current, end) == ~ (current + Hour < end)

\* the catch-up loop's condition, negated
catchUpDone(current, end) == ~ (current < end)

\* the stores syncMarketData may find: empty, with a rate of the last hours,
\* with a rate older than a day
FeedStores(now) ==
    {EmptyStore,
     AddMarketData(EmptyStore, 2, 3, 5, HourOf(now) - 2 * Hour),
     AddMarketData(EmptyStore, 2, 3, 5, GenesisTimestamp + Hour)}

\* go syncMarketData(ctx, store, log)
FeedInit ==
    /\ chain = <<>>
    /\ published = [changes |-> 0, blocks |-> 0, forks |-> 0]
    /\ cc = NoChange
    /\ sub = 1
    /\ status = "running"
    /\ formations = 0
    /\ committed = 0
    /\ commits = 0
    /\ request = NoRequest
    /\ response = NoResponse
    /\ snapshots = {}
    /\ estimate = NoEstimate
    /\ attempt = NoAttempt
    /\ \E now \in {StartHour * Hour, StartHour * Hour + 1} :
        /\ db \in FeedStores(now)
        /\ feed = [pc |-> "start", now |-> now, passed |-> 0, done |-> FALSE,
                   timestamp |-> ZeroTime, y |-> 0, rates |-> <<>>,
                   start |-> ZeroTime, current |-> ZeroTime, end |-> ZeroTime,
                   stored |-> <<>>, retried |-> FALSE, ticker |-> FALSE, tick |-> FALSE]

FeedUnchanged ==
    UNCHANGED <<chain, published, cc, sub, status, formations, committed, commits,
                request, response, snapshots, estimate, attempt>>

\* the first GetExchangeRate, the clamp to genesis and the test of the
\* yearly backfill
FeedStart ==
    /\ feed.pc = "start"
    /\ \E readFails \in BOOLEAN :
        \E got \in {GetExchangeRate(db, readFails)} :
            IF got.err = "read failed"
            THEN feed' = [feed EXCEPT !.pc = "returned"]
            ELSE \E timestamp \in {IF got.timestamp < GenesisTimestamp
                                   THEN GenesisTimestamp ELSE got.timestamp} :
                    feed' = [feed EXCEPT
                                !.pc = IF feed.now - timestamp > Day THEN "years" ELSE "reread",
                                !.timestamp = timestamp,
                                !.y = YearOf(timestamp)]
    /\ UNCHANGED db
    /\ FeedUnchanged

\* one turn of the loop over the years: the loop condition, the test of
\* ctx.Done() and GetYearExchangeRate, whose error is only logged
FeedYear ==
    /\ feed.pc = "years"
    /\ IF feed.y > YearOf(feed.now)
       THEN feed' = [feed EXCEPT !.pc = "reread"]
       ELSE IF feed.done
       THEN feed' = [feed EXCEPT !.pc = "returned"]
       ELSE \E fetchFails \in BOOLEAN :
                feed' = [feed EXCEPT
                            !.pc = "rates",
                            !.rates = IF fetchFails THEN <<>>
                                      ELSE YearRates(feed.timestamp, feed.now)]
    /\ UNCHANGED db
    /\ FeedUnchanged

\* one turn of the loop over the year's rates: the test of ctx.Done() and
\* AddMarketData, whose error is only logged; after the last rate the year
\* advances
FeedRate ==
    /\ feed.pc = "rates"
    /\ IF feed.rates = <<>>
       THEN /\ feed' = [feed EXCEPT !.pc = "years", !.timestamp = AddYears(@, 1),
                                    !.y = @ + 1]
            /\ UNCHANGED db
       ELSE IF feed.done
       THEN /\ feed' = [feed EXCEPT !.pc = "returned"]
            /\ UNCHANGED db
       ELSE \E writeFails \in BOOLEAN :
                /\ db' = IF writeFails THEN db
                         ELSE AddMarketData(db, 2, 3, 5, Head(feed.rates))
                /\ feed' = [feed EXCEPT !.rates = Tail(@)]
    /\ FeedUnchanged

\* the second GetExchangeRate and the bounds of the catch-up loop
FeedReread ==
    /\ feed.pc = "reread"
    /\ \E readFails \in BOOLEAN :
        \E got \in {GetExchangeRate(db, readFails)} :
            IF got.err # "nil"
            THEN feed' = [feed EXCEPT !.pc = "returned"]
            ELSE feed' = [feed EXCEPT
                            !.pc = "catchup",
                            !.timestamp = HourOf(AddDays(got.timestamp, - ResyncDays)),
                            !.start = HourOf(AddDays(got.timestamp, - ResyncDays)),
                            !.current = HourOf(AddDays(got.timestamp, - ResyncDays)),
                            !.end = HourOf(feed.now)]
    /\ UNCHANGED db
    /\ FeedUnchanged

\* one turn of the catch-up loop up to the provider's answer: the loop
\* condition, the test of ctx.Done(), GetHistoricalExchangeRate(current);
\* when the loop ends the ticker goroutine is started
FeedFetch ==
    /\ feed.pc = "catchup"
    /\ IF catchUpDone(feed.current, feed.end)
       THEN feed' = [feed EXCEPT !.pc = "ticker", !.ticker = TRUE]
       ELSE IF feed.done
       THEN feed' = [feed EXCEPT !.pc = "returned"]
       ELSE \E fetchFails \in BOOLEAN :
                feed' = [feed EXCEPT
                            !.pc = IF fetchFails THEN "failed" ELSE "fetched",
                            !.current = IF fetchFails THEN afterUpdate(@, TRUE) ELSE @]
    /\ UNCHANGED db
    /\ FeedUnchanged

\* updateMarketData's AddMarketData(current) and, when it succeeds, the
\* advance of the cursor
FeedUpsert ==
    /\ feed.pc = "fetched"
    /\ \E writeFails \in BOOLEAN :
        /\ db' = IF writeFails THEN db ELSE AddMarketData(db, 2, 3, 5, feed.current)
        /\ feed' = [feed EXCEPT
                        !.pc = IF writeFails THEN "failed" ELSE "catchup",
                        !.current = afterUpdate(@, writeFails),
                        !.stored = IF writeFails THEN @ ELSE Append(@, feed.current)]
    /\ FeedUnchanged

\* updateMarketData returned an error: time.Sleep(time.Second); continue
FeedSleep ==
    /\ feed.pc = "failed"
    /\ feed' = [feed EXCEPT !.pc = "catchup", !.retried = TRUE]
    /\ UNCHANGED db
    /\ FeedUnchanged

\* the 5-minute ticker sends on t.C
FeedTick ==
    /\ feed.pc = "ticker"
    /\ ~ feed.tick
    /\ feed' = [feed EXCEPT !.tick = TRUE]
    /\ UNCHANGED db
    /\ FeedUnchanged

\* the goroutine's select takes ctx.Done(), ready once ctx is cancelled
FeedStop ==
    /\ feed.pc = "ticker"
    /\ feed.done
    /\ feed' = [feed EXCEPT !.pc = "returned"]
    /\ UNCHANGED db
    /\ FeedUnchanged

\* the goroutine's select takes t.C, ready once the ticker has sent, and
\* updates the rate of the current hour; with both channels ready select
\* takes either
FeedRefresh ==
    /\ feed.pc = "ticker"
    /\ feed.tick
    /\ \E failed \in BOOLEAN :
        db' = IF failed THEN db ELSE AddMarketData(db, 2, 3, 5, HourOf(feed.now))
    /\ feed' = [feed EXCEPT !.tick = FALSE]
    /\ FeedUnchanged

\* the context is cancelled
FeedCancel ==
    /\ feed.pc # "returned"
    /\ ~ feed.done
    /\ feed' = [feed EXCEPT !.done = TRUE]
    /\ UNCHANGED db
    /\ FeedUnchanged

\* an hour passes on the clock
FeedHourPasses ==
    /\ feed.pc # "returned"
    /\ feed.passed < MaxHoursPassed
    /\ feed' = [feed EXCEPT !.now = @ + Hour, !.passed = @ + 1]
    /\ UNCHANGED db
    /\ FeedUnchanged

\* the steps of the task and of its goroutine
FeedRuns ==
    \/ FeedStart
    \/ FeedYear
    \/ FeedRate
    \/ FeedReread
    \/ FeedFetch
    \/ FeedUpsert
    \/ FeedSleep
    \/ FeedStop
    \/ FeedRefresh

FeedNext ==
    \/ FeedStart
    \/ FeedYear
    \/ FeedRate
    \/ FeedReread
    \/ FeedFetch
    \/ FeedUpsert
    \/ FeedSleep
    \/ FeedTick
    \/ FeedStop
    \/ FeedRefresh
    \/ FeedCancel
    \/ FeedHourPasses

FeedSpec == FeedInit /\ [][FeedNext]_vars

\* the task is scheduled, and the fetch and the upsert of an hour that is
\* retried again and again succeed in the end
FeedLiveSpec ==
    /\ FeedSpec
    /\ WF_vars(FeedRuns)
    /\ SF_vars(FeedFetch /\ feed'.pc # "failed")
    /\ SF_vars(FeedUpsert /\ feed'.pc # "failed")

\* ------------------------------------------------------------------ properties

\* a reading time no block timestamp exceeds
Now == MaxTime

\* a step in which the transaction of ProcessConsensusChange committed; the
\* change it processed is cc'
Commits == commits' # commits

\* a step in which ProcessConsensusChange failed and the process panicked
Panics == status = "running" /\ status' = "panicked"

\* the transaction's state when the maturation pass of the only applied
\* block of `change` starts
beforeMaturation(store, change) ==
    LET reverted == revertBlocks(store, change.RevertedBlocks)
        applied == change.AppliedBlocks[1]
        ab == addBlock(reverted.db, applied.ID, change.BlockHeight, applied.Timestamp)
        tr == applyTransactions(ab.db, applied.Transactions, ab.id, spentUtxoValues(change))
    IN  [tr EXCEPT !.err = reverted.err \/ ab.err \/ tr.err]

\* the contracts the maturation pass of the only applied block of `change`
\* finds expired without a proof, and proven
expiredIn(store, change) ==
    IF change.BlockHeight > maturityDelay
    THEN missedContracts(beforeMaturation(store, change).db, change.BlockHeight - maturityDelay)
    ELSE {}

successfulIn(store, change) ==
    IF change.BlockHeight > maturityDelay
    THEN validContracts(beforeMaturation(store, change).db, change.BlockHeight - maturityDelay)
    ELSE {}

\* C1: after every committed change the counters of the latest bucket add up
\* to the number of contract formations the indexer has applied:
\* active + valid + missed = contractsEverSeen.
C1_LedgerBalanced ==
    LET m == Metrics(db, Now)
    IN  m.Active + m.Valid + m.Missed = formations

\* the change reverts K blocks and applies K blocks with the same
\* transactions and timestamps, in the same order
EquivalentReorg(change) ==
    LET old == Reversed(change.RevertedBlocks)
        new == change.AppliedBlocks
    IN  /\ Len(old) > 0
        /\ Len(new) = Len(old)
        /\ \A i \in 1 .. Len(old) :
            /\ new[i].Timestamp = old[i].Timestamp
            /\ new[i].Transactions = old[i].Transactions

\* C2: a committed change that reverts the last K blocks and re-applies K
\* equivalent blocks leaves the latest running totals (active, valid, missed,
\* revenue, payout) as they were after the N blocks were applied.
C2_ReorgKeepsTotals ==
    [][(Commits /\ EquivalentReorg(cc')) => Metrics(db', Now) = Metrics(db, Now)]_vars

\* v is at most w in every currency
ValuesLeq(v, w) == v.SC <= w.SC /\ v.USD <= w.USD /\ v.EUR <= w.EUR /\ v.BTC <= w.BTC

\* C3: across the rows of hourly_contract_stats, revenue and payout never
\* decrease with the row's timestamp.
C3_TotalsMonotone ==
    \A r1, r2 \in db.hourly_contract_stats :
        r1.date_created <= r2.date_created
            => ValuesLeq(r1.revenue, r2.revenue) /\ ValuesLeq(r1.payout, r2.payout)

\* every effect of `change` is in the store: its reverted blocks are gone,
\* its applied blocks are rows at their heights, the cursor points at it
Durable(store, change) ==
    LET first == change.BlockHeight - Len(change.AppliedBlocks) + 1
    IN  /\ \A i \in 1 .. Len(change.RevertedBlocks) :
            ~ \E b \in store.blocks : b.block_id = change.RevertedBlocks[i].ID
        /\ \A i \in 1 .. Len(change.AppliedBlocks) :
            \E b \in store.blocks :
                /\ b.block_id = change.AppliedBlocks[i].ID
                /\ b.height = first + i - 1
                /\ b.date_created = change.AppliedBlocks[i].Timestamp
        /\ store.global_settings.contracts_last_processed_change = change.ID
        /\ store.global_settings.contracts_height = change.BlockHeight

\* C4: ProcessConsensusChange is atomic. When it fails the process panics
\* and the store is exactly as before the change; when it commits, the
\* function ran without an error and all its writes, the cursor included,
\* are in the store together.
C4_Atomic ==
    [][/\ Panics => db' = db
       /\ Commits => /\ ~ processChange(db, cc').err
                     /\ db' = processChange(db, cc').db
                     /\ Durable(db', cc')
                     /\ status' = "running"]_vars

\* a change failed part-way: the function had written to the transaction
\* before it returned its error, and the store shows none of it
C4_RolledBack ==
    /\ status = "panicked"
    /\ committed < published.changes
    /\ processChange(db, cc).err
    /\ processChange(db, cc).db # db

\* C5: a committed change with id C and tip height H leaves the cursor at
\* (C, H) and LastChange() returning C; no other step changes the cursor.
C5_Cursor ==
    [][/\ Commits => /\ db'.global_settings.contracts_last_processed_change = cc'.ID
                     /\ db'.global_settings.contracts_height = cc'.BlockHeight
                     /\ LastChange(db') = cc'.ID
       /\ db'.global_settings # db.global_settings => Commits]_vars

\* the cursor has moved to a second change, on a chain two blocks high
C5_CursorMoved ==
    /\ committed >= 2
    /\ LastChange(db) = ChangeID(committed)
    /\ db.global_settings.contracts_height = Len(chain)
    /\ Len(chain) >= 2

\* C6: across failures and restarts no change is skipped or credited twice.
\* LastChange() is ConsensusChangeBeginning exactly while no change has
\* committed and the id of the last committed change afterwards; changes
\* commit once each and in order; and the subscription of a running process
\* stands at the change after the last committed one, so a failed change is
\* delivered again after the restart and a committed one is not.
C6_ResumeFromCursor ==
    /\ LastChange(db) = (IF committed = 0 THEN ConsensusChangeBeginning ELSE ChangeID(committed))
    /\ (LastChange(db) = ConsensusChangeBeginning) = (commits = 0)
    /\ commits = committed
    /\ status = "running" => sub = committed + 1
    /\ committed \in {published.changes - 1, published.changes} \cap Nat

\* the process was restarted after a change failed, with an earlier change
\* committed: the subscription stands at the failed change
C6_ResumedAtFailedChange ==
    /\ status = "running"
    /\ committed >= 1
    /\ committed < published.changes
    /\ sub = published.changes
    /\ LastChange(db) = ChangeID(committed)

\* C7: delivering a change that has already been committed leaves blocks,
\* active contracts, hourly stats and cursor as the first delivery left them.
C7_ReplayKeepsStore ==
    [][(/\ committed = published.changes
        /\ published' = published
        /\ (Panics \/ Commits))
       => /\ db'.blocks = db.blocks
          /\ db'.active_contracts = db.active_contracts
          /\ db'.hourly_contract_stats = db.hourly_contract_stats
          /\ db'.global_settings = db.global_settings]_vars

\* a committed change with applied blocks was delivered a second time
C7_Replayed ==
    /\ status = "panicked"
    /\ committed = published.changes
    /\ committed > 0
    /\ db.blocks # {}

\* C8: every row of hourly_contract_stats has active, valid and missed
\* counters that are not negative.
C8_CountersNonNegative ==
    \A r \in db.hourly_contract_stats :
        r.active_contracts >= 0 /\ r.valid_contracts >= 0 /\ r.missed_contracts >= 0

\* a change was aborted because updateContractStats refused a negative total
C8_NegativeRejected ==
    /\ status = "panicked"
    /\ committed < published.changes
    /\ Len(cc.AppliedBlocks) = 1
    /\ LET applied == cc.AppliedBlocks[1]
           tr == beforeMaturation(db, cc)
           m == maturation(tr.db, cc.BlockHeight, applied.Timestamp)
       IN  /\ ~ tr.err
           /\ ~ m.err
           /\ updateContractStats(tr.db, tr.active - m.valid - m.missed, m.valid, m.missed,
                                  m.totalRevenue, m.totalPayout, applied.Timestamp).err

C11_MissedCreditsMissedLeg ==
    [][(/\ Commits
        /\ Len(cc'.AppliedBlocks) = 1
        /\ CountFormations(cc') = 0
        /\ Cardinality(expiredIn(db, cc')) = 1
        /\ successfulIn(db, cc') = {})
       => LET timestamp == cc'.AppliedBlocks[1].Timestamp
              c == CHOOSE x \in expiredIn(db, cc') : TRUE
              before == Metrics(db, timestamp)
              after == Metrics(db', timestamp)
          IN  /\ after.Payout.SC = before.Payout.SC + c.missed_payout_value
              /\ after.Missed = before.Missed + 1
              /\ after.Active = before.Active - 1
              /\ (c.initial_missed_revenue = 0
                  /\ c.missed_payout_value <= c.initial_missed_payout_value)
                    => after.Revenue = before.Revenue]_vars

\* C12: a committed change whose only applied block matures exactly one
\* contract, which has no proof, raises the native revenue by
\* saturating_sub(finalMissed, initialMissed) + initialMissedRevenue; the
\* initialMissedRevenue term is added even when the subtraction underflows.
C12_MissedRevenueKeepsInitial ==
    [][(/\ Commits
        /\ Len(cc'.AppliedBlocks) = 1
        /\ Cardinality(expiredIn(db, cc')) = 1
        /\ successfulIn(db, cc') = {})
       => LET timestamp == cc'.AppliedBlocks[1].Timestamp
              c == CHOOSE x \in expiredIn(db, cc') : TRUE
          IN  Metrics(db', timestamp).Revenue.SC
                = Metrics(db, timestamp).Revenue.SC
                  + SubWithUnderflow(c.missed_payout_value, c.initial_missed_payout_value).v
                  + c.initial_missed_revenue]_vars

C14_FiatLegs ==
    [][(/\ Commits
        /\ Len(cc'.AppliedBlocks) = 1
        /\ expiredIn(db, cc') \cup successfulIn(db, cc') # {})
       => LET timestamp == cc'.AppliedBlocks[1].Timestamp
              rates == getExchangeRate(db, timestamp)
              before == Metrics(db, timestamp)
              after == Metrics(db', timestamp)
          IN  /\ ~ rates.err
              /\ after.Revenue
                    = ValuesAdd(before.Revenue, Fiat(after.Revenue.SC - before.Revenue.SC, rates))
              /\ after.Payout
                    = ValuesAdd(before.Payout, Fiat(after.Payout.SC - before.Payout.SC, rates))]_vars

\* a step in which ProcessConsensusChange ran on the change cc'
Delivers == Panics \/ Commits

\* C15: while market_data is empty, a change that applies a block at a
\* height above maturityDelay is aborted and nothing of it is committed; a
\* change whose applied blocks are all at or below maturityDelay asks for no
\* rate: it fails or succeeds exactly as it would with a rate stored.
C15_RateNeededAboveMaturity ==
    [][(Delivers /\ db.market_data = {})
       => /\ (cc'.AppliedBlocks # <<>> /\ cc'.BlockHeight > maturityDelay)
                => /\ processChange(db, cc').err
                   /\ Panics
                   /\ db' = db
          /\ cc'.BlockHeight <= maturityDelay
                => processChange(db, cc').err
                     = processChange(AddMarketData(db, 2, 3, 5, 1), cc').err]_vars

\* the first block was applied and committed with no rate stored, and the
\* change applying the block above it was aborted only for want of a rate
C15_AbortedForRate ==
    /\ status = "panicked"
    /\ db.market_data = {}
    /\ committed = 1
    /\ published.changes = 2
    /\ db.blocks # {}
    /\ db.global_settings.contracts_height = 1
    /\ cc.BlockHeight > maturityDelay
    /\ processChange(db, cc).err
    /\ ~ processChange(AddMarketData(db, 2, 3, 5, 1), cc).err

\* the instants at which Metrics is asked: from before the first block
\* timestamp to after the last
Instants == 0 .. MaxTime + 1

\* the running totals stored in row r
TotalsOf(r) ==
    [Active |-> r.active_contracts, Valid |-> r.valid_contracts,
     Missed |-> r.missed_contracts, Revenue |-> r.revenue, Payout |-> r.payout]

\* C16: Metrics(t) returns the running totals of the latest row of
\* hourly_contract_stats with a timestamp at or before t: asked at a row's own
\* timestamp it returns that row's totals, and Metrics(t) = Metrics(t + e)
\* for every e >= 0 such that no row has a timestamp in (t, t + e].
C16_MetricsLatestRow ==
    /\ \A r \in db.hourly_contract_stats :
        /\ Metrics(db, r.date_created) = TotalsOf(r)
        /\ ~ MetricsNoRows(db, r.date_created)
    /\ \A t \in Instants, u \in Instants :
        (t <= u /\ ~ \E r \in db.hourly_contract_stats : t < r.date_created /\ r.date_created <= u)
            => /\ Metrics(db, t) = Metrics(db, u)
               /\ MetricsNoRows(db, t) = MetricsNoRows(db, u)

\* two rows with different totals are stored: Metrics differs between their
\* timestamps and stays the same after the later one
C16_TwoRows ==
    /\ \E r1, r2 \in db.hourly_contract_stats :
        r1.date_created < r2.date_created /\ TotalsOf(r1) # TotalsOf(r2)
    /\ Metrics(db, 1) # Metrics(db, 2)
    /\ Metrics(db, MaxTime) = Metrics(db, MaxTime + 1)
    /\ Metrics(db, MaxTime) # Metrics(db, 0)

\* GET /metrics/revenue/:period was answered with the rows of Periods
PeriodsAnswered ==
    /\ request.route = "GET /metrics/revenue/:period"
    /\ response.status = 200
    /\ response.encoded

\* C17: for each of the four periods, Periods(start, end, p) with
\* start < end on period boundaries emits ceil((end - start) / p) rows (for
\* monthly, one per calendar month from start's to end's), the first at
\* start, each on a period boundary before end, each one period step after
\* the row before it.
C17_PeriodsRows ==
    PeriodsAnswered
        => LET call == response.calls[1]
               rows == response.body
               p == CASE call.period = PeriodHourly -> Hour
                      [] call.period = PeriodDaily -> Day
                      [] call.period = PeriodWeekly -> DaysPerWeek * Day
                      [] OTHER -> 0
           IN  /\ call.period \in {PeriodHourly, PeriodDaily, PeriodWeekly, PeriodMonthly}
               /\ call.start < call.end
               /\ call.start = NormalizePeriod(call.start, call.period)
               /\ call.end = NormalizePeriod(call.end, call.period)
               /\ Len(rows) = IF call.period = PeriodMonthly
                              THEN MonthOf(call.end \div Day) - MonthOf(call.start \div Day)
                              ELSE (call.end - call.start + p - 1) \div p
               /\ rows[1].Timestamp = call.start
               /\ \A i \in 1 .. Len(rows) :
                    /\ rows[i].Timestamp = NormalizePeriod(rows[i].Timestamp, call.period)
                    /\ rows[i].Timestamp < call.end
               /\ \A i \in 1 .. Len(rows) - 1 :
                    /\ rows[i].Timestamp < rows[i + 1].Timestamp
                    /\ IF call.period = PeriodMonthly
                       THEN MonthOf(rows[i + 1].Timestamp \div Day)
                                = MonthOf(rows[i].Timestamp \div Day) + 1
                       ELSE rows[i + 1].Timestamp = rows[i].Timestamp + p

\* a monthly request over three months of unequal length was answered with
\* three rows
C17_ThreeMonths ==
    /\ PeriodsAnswered
    /\ request.period = PeriodMonthly
    /\ Len(response.body) = 3
    /\ response.body[2].Timestamp - response.body[1].Timestamp
            # response.body[3].Timestamp - response.body[2].Timestamp

\* the stored rows whose timestamp normalizes to the bucket at timestamp
StoredIn(store, timestamp, period) ==
    {r \in store.hourly_contract_stats : NormalizePeriod(r.date_created, period) = timestamp}

\* C18: each row Periods emits carries the running totals of the last stored
\* row whose timestamp normalizes to the row's bucket; a bucket with no stored
\* row repeats the row emitted before it, and the first row carries zeros
\* when its bucket has none. With a single row stored at hour T,
\* Periods(T - 2h, T + 2h, hourly) is four rows at T - 2h, T - 1h, T, T + 1h,
\* the first two zero and the last two the stored totals.
C18_ForwardFill ==
    PeriodsAnswered
        => LET call == response.calls[1]
               rows == response.body
           IN  /\ \A i \in 1 .. Len(rows) :
                    LET stored == StoredIn(db, rows[i].Timestamp, call.period)
                    IN  IF stored # {}
                        THEN \E r \in stored :
                                /\ \A x \in stored : x.date_created <= r.date_created
                                /\ rows[i] = [Timestamp |-> rows[i].Timestamp] @@ TotalsOf(r)
                        ELSE IF i = 1
                        THEN rows[i] = ZeroState(rows[i].Timestamp)
                        ELSE rows[i] = [rows[i - 1] EXCEPT !.Timestamp = rows[i].Timestamp]
               /\ \A r \in db.hourly_contract_stats :
                    (/\ db.hourly_contract_stats = {r}
                     /\ r.date_created % Hour = 0
                     /\ call.period = PeriodHourly
                     /\ call.start = r.date_created - 2 * Hour
                     /\ call.end = r.date_created + 2 * Hour)
                        => rows = <<ZeroState(r.date_created - 2 * Hour),
                                    ZeroState(r.date_created - Hour),
                                    [Timestamp |-> r.date_created] @@ TotalsOf(r),
                                    [Timestamp |-> r.date_created + Hour] @@ TotalsOf(r)>>

\* the single stored row is at hour T0 and Periods(T0 - 2h, T0 + 2h, hourly)
\* was answered: four rows, two of zeros and two of the row's totals
C18_SingleBucket ==
    /\ PeriodsAnswered
    /\ request.period = PeriodHourly
    /\ Cardinality(db.hourly_contract_stats) = 1
    /\ response.calls[1].start = T0 - 2 * Hour
    /\ response.calls[1].end = T0 + 2 * Hour
    /\ Len(response.body) = 4
    /\ response.body[2].Revenue = ZeroValues
    /\ response.body[3].Revenue.USD > 0
    /\ response.body[3].Timestamp = T0
    /\ response.body[4].Revenue = response.body[3].Revenue

\* GET /integrations/web3index/revenue was answered with a body
Web3IndexAnswered ==
    /\ request.route = "GET /integrations/web3index/revenue"
    /\ response.status = 200
    /\ response.encoded

\* the daily rows Periods returned to handleGetWeb3Index
DailyRows ==
    LET call == response.calls[Len(response.calls)]
    IN  Periods(db, call.start, call.end, PeriodDaily, FALSE).state

\* C19: the days list of the web3index answer holds the differences between
\* adjacent daily cumulative USD revenues: n - 1 entries for n daily rows, one
\* entry dated as each row but the first, carrying that row's value minus the
\* value of the row before it; four adjacent daily rows of 10, 15, 15, 40
\* beginning at day D give the entries {D + 1, 5}, {D + 2, 0}, {D + 3, 25}.
C19_DaysAreDeltas ==
    Web3IndexAnswered
        => LET days == DailyRows
               list == response.body.Days
               n == Len(days)
               entries(date) == {i \in DOMAIN list : list[i].Date = date}
           IN  /\ Len(list) = n - 1
               /\ \A k \in 2 .. n :
                    /\ Cardinality(entries(days[k].Timestamp)) = 1
                    /\ \A i \in entries(days[k].Timestamp) :
                        list[i].Revenue = days[k].Revenue.USD - days[k - 1].Revenue.USD
               /\ \A k \in 1 .. n - 3 :
                    (/\ days[k].Revenue.USD = 10
                     /\ days[k + 1].Revenue.USD = 15
                     /\ days[k + 2].Revenue.USD = 15
                     /\ days[k + 3].Revenue.USD = 40)
                        => /\ \A i \in entries(days[k + 1].Timestamp) : list[i].Revenue = 5
                           /\ \A i \in entries(days[k + 2].Timestamp) : list[i].Revenue = 0
                           /\ \A i \in entries(days[k + 3].Timestamp) : list[i].Revenue = 25

\* daily buckets of 10, 15, 15, 40 beginning at day T0 were answered with
\* the entries {T0 + 1, 5}, {T0 + 2, 0}, {T0 + 3, 25}
C19_ExampleDays ==
    /\ Web3IndexAnswered
    /\ \E k \in 1 .. Len(DailyRows) - 3 :
        /\ DailyRows[k].Timestamp = T0
        /\ DailyRows[k].Revenue.USD = 10
        /\ DailyRows[k + 1].Revenue.USD = 15
        /\ DailyRows[k + 2].Revenue.USD = 15
        /\ DailyRows[k + 3].Revenue.USD = 40
    /\ \E i, j, l \in DOMAIN response.body.Days :
        /\ response.body.Days[i] = [Date |-> AddDays(T0, 1), Revenue |-> 5]
        /\ response.body.Days[j] = [Date |-> AddDays(T0, 2), Revenue |-> 0]
        /\ response.body.Days[l] = [Date |-> AddDays(T0, 3), Revenue |-> 25]

\* C20: GET /metrics/revenue/:period answers 400 without calling Periods when
\* start or end is absent or the period is none of hourly, daily, weekly,
\* monthly; a store error from Metrics (GET /metrics/revenue) or from Periods
\* is answered with 500 and no result is encoded.
C20_ErrorAnswers ==
    /\ (/\ request.route = "GET /metrics/revenue/:period"
        /\ \/ request.start = ZeroTime
           \/ request.end = ZeroTime
           \/ request.period \notin {PeriodHourly, PeriodDaily, PeriodWeekly, PeriodMonthly})
            => /\ response.status = 400
               /\ response.calls = <<>>
               /\ ~ response.encoded
    /\ (/\ request.route = "GET /metrics/revenue"
        /\ \/ request.failed = "Metrics"
           \/ MetricsNoRows(db, IF request.start = ZeroTime THEN request.now ELSE request.start))
            => /\ response.status = 500
               /\ ~ response.encoded
    /\ (/\ request.route = "GET /metrics/revenue/:period"
        /\ request.failed = "Periods"
        /\ response.calls # <<>>)
            => /\ response.status = 500
               /\ ~ response.encoded

\* what the handler of `request` answers when it reads all it reads from the
\* one store S
AnswerOn(S) ==
    CASE request.route = "GET /metrics/revenue" ->
            handleGetRevenue(S, request.start, request.now, FALSE).body
      [] request.route = "GET /metrics/revenue/:period" ->
            handleGetRevenuePeriods(S, request.period, request.start, request.end, FALSE).body
      [] request.route = "GET /integrations/web3index/revenue" ->
            handleGetWeb3Index(S, request.now, "").body

\* C21: every answered request reflects a single committed Store state: its
\* body, the eight scalars and the days list of the web3index answer
\* included, is what the handler answers on one of the Store states that
\* were committed while the request was served, never a mix of two of them.
C21_SingleSnapshot ==
    (request.n > 0 /\ response.status = 200 /\ response.encoded)
        => \E S \in snapshots : response.body = AnswerOn(S)

\* the transaction's state when the i-th applied block of `change` starts
beforeBlock(store, change, i) ==
    LET reverted == revertBlocks(store, change.RevertedBlocks)
    IN  IF reverted.err THEN reverted
        ELSE applyBlocks(reverted.db, SubSeq(change.AppliedBlocks, 1, i - 1),
                         change.BlockHeight - Len(change.AppliedBlocks) + 1,
                         spentUtxoValues(change))

\* the contracts for which `change` carries a storage proof in a block that
\* starts with no active-contract row of theirs
UnknownProofs(store, change) ==
    {c \in ContractIDs :
        \E i \in 1 .. Len(change.AppliedBlocks) :
            /\ \E t \in 1 .. Len(change.AppliedBlocks[i].Transactions) :
                /\ change.AppliedBlocks[i].Transactions[t].FileContracts = <<>>
                /\ \E p \in 1 .. Len(change.AppliedBlocks[i].Transactions[t].StorageProofs) :
                    change.AppliedBlocks[i].Transactions[t].StorageProofs[p].ParentID = c
            /\ ~ beforeBlock(store, change, i).err
            /\ ~ \E r \in beforeBlock(store, change, i).db.active_contracts : r.contract_id = c}

\* `change` without the transactions that prove a contract of `ids`
WithoutProofs(change, ids) ==
    LET kept(txn) == \A p \in 1 .. Len(txn.StorageProofs) : txn.StorageProofs[p].ParentID \notin ids
    IN  [change EXCEPT !.AppliedBlocks =
            [i \in 1 .. Len(change.AppliedBlocks) |->
                [change.AppliedBlocks[i] EXCEPT !.Transactions = SelectSeq(@, kept)]]]

\* C22: a storage proof whose contract has no active-contract row is
\* tolerated: a change that carries one and would be processed without it is
\* processed with it, commits, and leaves the Store as the same change
\* without the proof leaves it.
C22_UnknownProofTolerated ==
    [][(/\ Delivers
        /\ UnknownProofs(db, cc') # {}
        /\ ~ processChange(db, WithoutProofs(cc', UnknownProofs(db, cc'))).err)
       => /\ ~ processChange(db, cc').err
          /\ Commits => db' = processChange(db, WithoutProofs(cc', UnknownProofs(db, cc'))).db]_vars

\* every block reference of an active-contract row points at a block row
ReferencesExist(store) ==
    \A c \in store.active_contracts :
        /\ \E b \in store.blocks : b.id = c.block_id
        /\ c.proof_block_id # NULL => \E b \in store.blocks : b.id = c.proof_block_id

\* C23: in every committed Store each proof_block_id that is not NULL and
\* each block_id of an active-contract row points at an existing block row;
\* revertBlock, run on the first reverted block of a delivered change, removes
\* the block row and the contracts anchored to it, sets to NULL the
\* proof_block_id of the rows that point at it, and leaves every other row as
\* it was.
C23_BlockReferences ==
    /\ [] ReferencesExist(db)
    /\ [][(Delivers /\ cc'.RevertedBlocks # <<>>
           /\ \E b \in db.blocks : b.block_id = cc'.RevertedBlocks[1].ID)
          => LET row == CHOOSE b \in db.blocks : b.block_id = cc'.RevertedBlocks[1].ID
                 after == revertBlock(db, row.block_id)
             IN  /\ ~ after.err
                 /\ after.db.blocks = db.blocks \ {row}
                 /\ \A c \in db.active_contracts :
                        IF c.block_id = row.id
                        THEN ~ \E x \in after.db.active_contracts : x.id = c.id
                        ELSE IF c.proof_block_id = row.id
                        THEN [c EXCEPT !.proof_block_id = NULL] \in after.db.active_contracts
                        ELSE c \in after.db.active_contracts
                 /\ Cardinality(after.db.active_contracts)
                        = Cardinality({c \in db.active_contracts : c.block_id # row.id})
                 /\ ReferencesExist(after.db)]_vars

\* a committed change reverted the block that held a contract's storage
\* proof: the contract's row is still there, formed in a block that stays,
\* and its proof_block_id is NULL again
C23_ProofReverted ==
    /\ status = "running"
    /\ committed = published.changes
    /\ cc.RevertedBlocks # <<>>
    /\ \E c \in db.active_contracts :
        /\ c.proof_block_id = NULL
        /\ \E t \in 1 .. Len(cc.RevertedBlocks[1].Transactions) :
            \E p \in 1 .. Len(cc.RevertedBlocks[1].Transactions[t].StorageProofs) :
                cc.RevertedBlocks[1].Transactions[t].StorageProofs[p].ParentID = c.contract_id

\* the transaction's state when every applied block of `change` is done and
\* the sweep has not run
afterBlocks(store, change) == beforeBlock(store, change, Len(change.AppliedBlocks) + 1)

\* C24: a committed change with tipHeight > maturityDelay leaves no
\* active-contract row with expiration_height <= tipHeight - maturityDelay and
\* none whose proof block has height <= tipHeight - maturityDelay; a committed
\* change with tipHeight <= maturityDelay leaves every row its applied blocks
\* left.
C24_SweptAtTip ==
    [][Commits
       => /\ cc'.BlockHeight > maturityDelay
                => \A c \in db'.active_contracts :
                    /\ c.expiration_height > cc'.BlockHeight - maturityDelay
                    /\ ~ \E b \in db'.blocks :
                            b.id = c.proof_block_id /\ b.height <= cc'.BlockHeight - maturityDelay
          /\ cc'.BlockHeight <= maturityDelay
                => db'.active_contracts = afterBlocks(db, cc').db.active_contracts]_vars

\* on a chain that was never reorganised, a committed change with a tip
\* above maturityDelay has left fewer rows than contracts were formed: the
\* sweep has deleted one, and a row whose window is still open remains
C24_RowSwept ==
    /\ status = "running"
    /\ committed = published.changes
    /\ published.forks = 0
    /\ cc.BlockHeight > maturityDelay
    /\ Cardinality(db.active_contracts) < formations
    /\ db.active_contracts # {}

\* a change that applies, on top of the store's tip, one block forming a
\* contract with the id `c`
SecondFormation(store, c) ==
    LET h == store.global_settings.contracts_height + 1
        block == [ID |-> 0, Timestamp |-> 1, Transactions |-> <<FormTxn(c, h)>>]
    IN  [ID |-> ChangeID(0), BlockHeight |-> h, RevertedBlocks |-> <<>>,
         AppliedBlocks |-> <<block>>, AppliedDiffs |-> DiffsOf(<<block>>)]

\* the formation of a contract id that has a row is refused, by
\* addActiveContract and so by the change
SecondFormationFails(store) ==
    \A c \in store.active_contracts :
        /\ addActiveContract(store, c.contract_id, FormTxn(c.contract_id, 1).FileContracts[1],
                             c.block_id, 0, 0) = Fail(store)
        /\ processChange(store, SecondFormation(store, c.contract_id)).err
        /\ transaction(store, processChange(store, SecondFormation(store, c.contract_id)), 0, FALSE)
                = [err |-> TRUE, db |-> store]

\* C25: a contract id has at most one active-contract row in every reachable
\* state; the row of a formed contract stays, one row, until a committed
\* change deletes it in its sweep (or reverts the block that formed it); and
\* a formation whose id already has a row makes the change fail and adds no
\* row.
C25_OneRowPerContract ==
    /\ [] (\A c, d \in db.active_contracts : c.contract_id = d.contract_id => c = d)
    /\ [] SecondFormationFails(db)
    /\ [][\A c \in db.active_contracts :
            \/ \E x \in db'.active_contracts : x.contract_id = c.contract_id
            \/ /\ Commits
               /\ \/ \E x \in afterBlocks(db, cc').db.active_contracts :
                        x.contract_id = c.contract_id
                  \/ \E i \in 1 .. Len(cc'.RevertedBlocks) :
                        \E b \in db.blocks :
                            b.id = c.block_id /\ b.block_id = cc'.RevertedBlocks[i].ID]_vars

\* two contracts were formed on a chain that was never reorganised; the sweep
\* has deleted the row of one, the other has its one row, revised and proven,
\* and a second formation of its id is refused
C25_OneRowKept ==
    /\ formations = 2
    /\ published.forks = 0
    /\ Cardinality(db.active_contracts) = 1
    /\ \E c \in db.active_contracts :
        /\ c.proof_block_id # NULL
        /\ c.valid_payout_value # c.initial_valid_payout_value
    /\ SecondFormationFails(db)

\* the ids of the contracts the maturation pass of the i-th applied block of
\* `change` counts, as missed or as valid
maturedBy(store, change, i) ==
    LET h == change.BlockHeight - Len(change.AppliedBlocks) + i
        applied == change.AppliedBlocks[i]
        ab == addBlock(beforeBlock(store, change, i).db, applied.ID, h, applied.Timestamp)
        tr == applyTransactions(ab.db, applied.Transactions, ab.id, spentUtxoValues(change))
    IN  IF h > maturityDelay
        THEN {c.contract_id : c \in missedContracts(tr.db, h - maturityDelay)
                                    \cup validContracts(tr.db, h - maturityDelay)}
        ELSE {}

\* C26: a contract is counted, as valid or missed, and credited to payout and
\* revenue once: in a committed change no contract is counted by the
\* maturation pass of two applied blocks, however many blocks at or above its
\* maturation height the change applies.
C26_CountedOnce ==
    [][Commits
       => \A i, j \in 1 .. Len(cc'.AppliedBlocks) :
            i < j => maturedBy(db, cc', i) \cap maturedBy(db, cc', j) = {}]_vars

\* C27: with storage proofs only below the expiration height, every
\* active-contract row the sweep of a committed change deletes was returned by
\* missedContracts or validContracts for a block the change applied: no
\* contract leaves the active set without having been counted as valid or
\* missed.
C27_SweptWereCounted ==
    [][Commits
       => \A c \in afterBlocks(db, cc').db.active_contracts :
            (~ \E x \in db'.active_contracts : x.contract_id = c.contract_id)
                => \E i \in 1 .. Len(cc'.AppliedBlocks) : c.contract_id \in maturedBy(db, cc', i)]_vars

\* two contracts were formed on a chain that was never reorganised and both
\* rows are swept: one was counted as valid and one as missed
C27_BothCounted ==
    /\ published.forks = 0
    /\ formations = 2
    /\ db.active_contracts = {}
    /\ \E r \in db.hourly_contract_stats :
        r.valid_contracts = 1 /\ r.missed_contracts = 1 /\ r.active_contracts = 0

\* the i-th applied block of `change` when its maturation pass starts: its
\* height and timestamp, the formations it counted, the transaction's state
atMaturation(store, change, i) ==
    The({[height |-> h, timestamp |-> applied.Timestamp, active |-> tr.active, db |-> tr.db] :
         tr \in {applyTransactions(addBlock(beforeBlock(store, change, i).db, applied.ID, h,
                                            applied.Timestamp).db,
                                   applied.Transactions,
                                   addBlock(beforeBlock(store, change, i).db, applied.ID, h,
                                            applied.Timestamp).id,
                                   spentUtxoValues(change)) :
                 h \in {change.BlockHeight - Len(change.AppliedBlocks) + i},
                 applied \in {change.AppliedBlocks[i]}},
         h \in {change.BlockHeight - Len(change.AppliedBlocks) + i},
         applied \in {change.AppliedBlocks[i]}})

\* the height of the block that holds the storage proof of row c
ProofHeight(store, c) == (CHOOSE b \in store.blocks : b.id = c.proof_block_id).height

\* C28: contracts are credited only at maturation. In a committed change an
\* applied block of height h counts as missed exactly the unproven rows with
\* expiration_height + maturityDelay <= h and as valid exactly the rows whose
\* proof block's height + maturityDelay <= h, so none is counted by a block
\* below its maturation height and each is counted by the first block at or
\* above it; no committed row waits past its maturation height; and a block of
\* height <= maturityDelay counts nothing and adds nothing to revenue or
\* payout.
C28_CreditedAtMaturation ==
    /\ [] (\A c \in db.active_contracts :
            IF c.proof_block_id = NULL
            THEN c.expiration_height + maturityDelay > db.global_settings.contracts_height
            ELSE ProofHeight(db, c) + maturityDelay > db.global_settings.contracts_height)
    /\ [][Commits
          => \A i \in 1 .. Len(cc'.AppliedBlocks) :
              \A at \in {atMaturation(db, cc', i)} :
                \A m \in {maturation(at.db, at.height, at.timestamp)},
                   counted \in {IF at.height > maturityDelay
                                THEN [missed |-> missedContracts(at.db, at.height - maturityDelay),
                                      valid |-> validContracts(at.db, at.height - maturityDelay)]
                                ELSE [missed |-> {}, valid |-> {}]} :
                    /\ \A c \in at.db.active_contracts :
                        /\ c \in counted.missed
                            <=> (/\ c.proof_block_id = NULL
                                 /\ at.height >= c.expiration_height + maturityDelay)
                        /\ c \in counted.valid
                            <=> (/\ c.proof_block_id # NULL
                                 /\ at.height >= ProofHeight(at.db, c) + maturityDelay)
                    /\ m.missed = Cardinality(counted.missed)
                    /\ m.valid = Cardinality(counted.valid)
                    /\ at.height <= maturityDelay
                        => /\ m.valid = 0 /\ m.missed = 0
                           /\ m.totalRevenue = ZeroValues /\ m.totalPayout = ZeroValues
                           /\ Len(cc'.AppliedBlocks) = 1
                                => Metrics(db', at.timestamp)
                                    = [Metrics(db, at.timestamp) EXCEPT !.Active = @ + at.active]]_vars

\* on a chain of four blocks that was never reorganised, c1 was formed in
\* block 1 with its window ending at height 3 and was not proven: block 4, the
\* first of height >= 3 + maturityDelay, counted it as missed
C28_MissedAtMaturation ==
    /\ published.forks = 0
    /\ Len(chain) = 4
    /\ committed = 4
    /\ FormedAt(chain, "c1") = 1
    /\ ~ ProvenOn(chain, "c1")
    /\ FormedAt(chain, "c2") = 0
    /\ db.active_contracts = {}
    /\ \E r \in db.hourly_contract_stats : r.missed_contracts = 1 /\ r.valid_contracts = 0

\* timestamp.Truncate(time.Hour)
TruncateHour(timestamp) == timestamp - (timestamp % Hour)

\* the committed change's only applied block read the running totals at its
\* timestamp, added its deltas and wrote them to the row keyed `key`
UpsertedAt(at, m, key) ==
    (at.active # 0 \/ m.valid # 0 \/ m.missed # 0)
        => \E r \in db'.hourly_contract_stats :
            /\ r.date_created = key
            /\ TotalsOf(r)
                = [Active |-> getMetrics(db, at.timestamp).Active + at.active - m.valid - m.missed,
                   Valid |-> getMetrics(db, at.timestamp).Valid + m.valid,
                   Missed |-> getMetrics(db, at.timestamp).Missed + m.missed,
                   Revenue |-> ValuesAdd(getMetrics(db, at.timestamp).Revenue, m.totalRevenue),
                   Payout |-> ValuesAdd(getMetrics(db, at.timestamp).Payout, m.totalPayout)]

\* C29: the bucket update of a committed one-block change reads the totals of
\* the latest row at or before the block's timestamp (zeros when there is
\* none), adds the deltas (active - valid - missed, valid, missed, revenue,
\* payout) and writes them to the row keyed by the timestamp truncated to the
\* hour; every key of hourly_contract_stats is an hour boundary, no hour has
\* two rows, and no step deletes a row.
C29_HourlyUpsert ==
    /\ [] (\A r \in db.hourly_contract_stats : r.date_created = TruncateHour(r.date_created))
    /\ [] (\A r1, r2 \in db.hourly_contract_stats :
            TruncateHour(r1.date_created) = TruncateHour(r2.date_created) => r1 = r2)
    /\ [][/\ \A r \in db.hourly_contract_stats :
                \E x \in db'.hourly_contract_stats : x.date_created = r.date_created
          /\ (Commits /\ Len(cc'.AppliedBlocks) = 1)
                => \A at \in {atMaturation(db, cc', 1)} :
                    \A m \in {maturation(at.db, at.height, at.timestamp)} :
                        UpsertedAt(at, m, TruncateHour(at.timestamp))]_vars

\* the (block_id, height) pairs of the rows of blocks
BlockRows(store) == {<<b.block_id, b.height>> : b \in store.blocks}

\* the (ID, height) pairs of a chain
ChainRows(blocks) == {<<blocks[h].ID, h>> : h \in 1 .. Len(blocks)}

\* C30: once a change is committed the blocks table holds exactly the blocks
\* of the current chain, applied block i (from 0) of the change at height
\* tipHeight - |appliedBlocks| + 1 + i and the last one at tipHeight, no row
\* of a reverted block left; no two rows ever share a block_id or a height.
C30_BlocksAreTheChain ==
    /\ [] (\A b1, b2 \in db.blocks :
            (b1.block_id = b2.block_id \/ b1.height = b2.height) => b1 = b2)
    /\ [] ((committed = published.changes /\ committed > 0)
            => /\ BlockRows(db) = ChainRows(chain)
               /\ Cardinality(db.blocks) = Len(chain))
    /\ [][Commits
            => /\ \A i \in 0 .. Len(cc'.AppliedBlocks) - 1 :
                    <<cc'.AppliedBlocks[i + 1].ID,
                      cc'.BlockHeight - Len(cc'.AppliedBlocks) + 1 + i>> \in BlockRows(db')
               /\ \A i \in 1 .. Len(cc'.RevertedBlocks) :
                    ~ \E b \in db'.blocks : b.block_id = cc'.RevertedBlocks[i].ID
               /\ \A b \in db'.blocks : b.height <= cc'.BlockHeight]_vars

\* a reorganisation was committed: the tip reverted, two blocks applied, and
\* the table is the new chain
C30_ReorgCommitted ==
    /\ status = "running"
    /\ committed = published.changes
    /\ Len(cc.RevertedBlocks) = 1
    /\ Len(cc.AppliedBlocks) = 2
    /\ Len(chain) = 3
    /\ BlockRows(db) = ChainRows(chain)
    /\ ~ \E b \in db.blocks : b.block_id = cc.RevertedBlocks[1].ID

\* the columns of an active contract fixed at formation
FormationFields(c) ==
    <<c.initial_valid_payout_value, c.initial_missed_payout_value,
      c.initial_valid_revenue, c.initial_missed_revenue, c.expiration_height>>

\* the current payouts of an active contract
CurrentPayouts(c) == <<c.valid_payout_value, c.missed_payout_value>>

\* the payouts a revision sets: its second outputs, zero for a short side
RevisedPayouts(fcr) ==
    <<IF Len(fcr.NewValidProofOutputs) >= 2 THEN fcr.NewValidProofOutputs[2] ELSE 0,
      IF Len(fcr.NewMissedProofOutputs) >= 2 THEN fcr.NewMissedProofOutputs[2] ELSE 0>>

\* the positions <<block, transaction>> of `blocks` that form contract id
FormedIn(blocks, id) ==
    {p \in (1 .. Len(blocks)) \X (1 .. 2) :
        /\ p[2] <= Len(blocks[p[1]].Transactions)
        /\ \E k \in 1 .. Len(blocks[p[1]].Transactions[p[2]].FileContracts) :
            blocks[p[1]].Transactions[p[2]].FileContracts[k].ID = id}

\* the positions <<block, transaction>> of `blocks` that revise contract id
RevisedIn(blocks, id) ==
    {p \in (1 .. Len(blocks)) \X (1 .. 2) :
        /\ p[2] <= Len(blocks[p[1]].Transactions)
        /\ \E k \in 1 .. Len(blocks[p[1]].Transactions[p[2]].FileContractRevisions) :
            blocks[p[1]].Transactions[p[2]].FileContractRevisions[k].ParentID = id}

\* the last of a non-empty set of positions
LastPosition(S) ==
    CHOOSE p \in S : \A q \in S : q[1] < p[1] \/ (q[1] = p[1] /\ q[2] <= p[2])

\* revisions of contract id with zero to three outputs on either side
RevisionShapes(id) ==
    {[ParentID |-> id, NewValidProofOutputs |-> v, NewMissedProofOutputs |-> m] :
        v \in {<<>>, <<50>>, <<50, 350>>}, m \in {<<>>, <<50>>, <<50, 290>>, <<50, 290, 60>>}}

\* C31: valid_payout_value and missed_payout_value of a contract change only
\* by a revision of that contract, which sets them to the revision's second
\* valid and missed output (zero for a side with fewer than two outputs);
\* the initial payouts, the initial revenues and expiration_height never
\* change after formation; blocks without a revision of the contract,
\* reverted blocks, proofs and the maturation pass leave them all as they are.
C31_PayoutsOnlyRevised ==
    /\ [] (\A c \in db.active_contracts : \A fcr \in RevisionShapes(c.contract_id) :
            \A r \in {reviseContracts(db, <<fcr>>)} :
                /\ ~ r.err
                /\ r.db.active_contracts
                    = (db.active_contracts \ {c})
                      \cup {[c EXCEPT !.valid_payout_value = RevisedPayouts(fcr)[1],
                                      !.missed_payout_value = RevisedPayouts(fcr)[2]]})
    /\ [][\A n \in db'.active_contracts :
            \A formed \in {FormedIn(cc'.AppliedBlocks, n.contract_id)},
               revised \in {RevisedIn(cc'.AppliedBlocks, n.contract_id)} :
                IF Commits /\ formed # {}
                THEN \* formed by this change: revised only at or after its formation
                     \A f \in {LastPosition(formed)} :
                        \A later \in {{p \in revised : p[1] > f[1] \/ (p[1] = f[1] /\ p[2] >= f[2])}} :
                            IF later = {}
                            THEN CurrentPayouts(n)
                                    = <<n.initial_valid_payout_value, n.initial_missed_payout_value>>
                            ELSE \A p \in {LastPosition(later)} :
                                    CurrentPayouts(n)
                                        = RevisedPayouts(cc'.AppliedBlocks[p[1]].Transactions[p[2]]
                                                            .FileContractRevisions[1])
                ELSE \E o \in db.active_contracts :
                        /\ o.contract_id = n.contract_id
                        /\ FormationFields(n) = FormationFields(o)
                        /\ IF Commits /\ revised # {}
                           THEN \A p \in {LastPosition(revised)} :
                                    CurrentPayouts(n)
                                        = RevisedPayouts(cc'.AppliedBlocks[p[1]].Transactions[p[2]]
                                                            .FileContractRevisions[1])
                           ELSE CurrentPayouts(n) = CurrentPayouts(o)]_vars

\* c2 was formed and revised by the last change while c1, formed earlier,
\* kept its payouts
C31_RevisedBesideUnrevised ==
    /\ committed = published.changes
    /\ RevisedIn(cc.AppliedBlocks, "c2") # {}
    /\ FormedIn(cc.AppliedBlocks, "c1") = {}
    /\ \E c \in db.active_contracts :
        /\ c.contract_id = "c2"
        /\ CurrentPayouts(c) = <<350, 290>>
        /\ FormationFields(c)[1] = 300
    /\ \E c \in db.active_contracts :
        /\ c.contract_id = "c1"
        /\ CurrentPayouts(c) = <<300, 300>>

\* whether the split (i, j) passes the four tests
SplitAccepted(inputs, outputs, renterTarget, hostTarget, i, j) ==
    /\ sum(SliceTo(inputs, i)) >= sum(SliceTo(outputs, j))
    /\ sum(SliceFrom(inputs, i)) >= sum(SliceFrom(outputs, j))
    /\ sum(SliceTo(inputs, i)) - sum(SliceTo(outputs, j)) > renterTarget
    /\ sum(SliceFrom(inputs, i)) - sum(SliceFrom(outputs, j)) < hostTarget

\* every split of the inputs and of the outputs, the empty sides included
AllSplits(inputs, outputs) == (0 .. Len(inputs)) \X (0 .. Len(outputs))

\* C32: estimateHostFunds examines the splits i = 0 .. len(inputs) of the
\* inputs in ascending order and, for each, the splits j = len(outputs) .. 0
\* of the outputs in descending order; it returns sum(host inputs) -
\* sum(host outputs) of the first accepted split, and no estimate exactly
\* when no split is accepted.
C32_FirstAcceptedSplit ==
    estimate.pc = "estimated"
        => \A accepted \in {{p \in AllSplits(estimate.inputs, estimate.outputs) :
                                SplitAccepted(estimate.inputs, estimate.outputs,
                                              estimate.renterTarget, estimate.hostTarget,
                                              p[1], p[2])}} :
            IF accepted = {}
            THEN ~ estimate.funds.ok
            ELSE \E p \in accepted :
                    /\ \A q \in accepted : p[1] < q[1] \/ (p[1] = q[1] /\ p[2] >= q[2])
                    /\ estimate.funds.ok
                    /\ estimate.funds.v = sum(SliceFrom(estimate.inputs, p[1]))
                                            - sum(SliceFrom(estimate.outputs, p[2]))

\* a - b, zero when b exceeds a
SaturatingSub(a, b) == IF a >= b THEN a - b ELSE 0

\* C33: a formation gets non-zero initial revenues only when its transaction
\* holds exactly one file contract, the contract has at least two valid and
\* two missed outputs and the estimator found a split for the targets
\* (first valid output + fees, second missed output); then the initial valid
\* revenue is the valid host payout less the host's funds and the initial
\* missed revenue the missed host payout less the host's funds, each zero
\* when the funds exceed the payout; in every other case both are zero.
C33_InitialRevenue ==
    estimate.pc = "formed"
        => \A fc \in {estimate.contract} :
            IF /\ estimate.nContracts = 1
               /\ Len(fc.ValidProofOutputs) >= 2
               /\ Len(fc.MissedProofOutputs) >= 2
            THEN \A est \in {estimateHostFunds(estimate.inputs, estimate.outputs,
                                               fc.ValidProofOutputs[1] + estimate.fees,
                                               fc.MissedProofOutputs[2])} :
                    IF est.ok
                    THEN estimate.revenue
                            = [valid |-> SaturatingSub(fc.ValidProofOutputs[2], est.v),
                               missed |-> SaturatingSub(fc.MissedProofOutputs[2], est.v)]
                    ELSE estimate.revenue = [valid |-> 0, missed |-> 0]
            ELSE estimate.revenue = [valid |-> 0, missed |-> 0]

\* a renewal funded by the renter's 260 and the host's 200: the host's funds
\* are 200, the valid payout of 150 saturates to zero, the missed payout of
\* 300 leaves 100
C33_SaturatedSide ==
    /\ estimate.pc = "formed"
    /\ estimate.inputs = <<260, 200>>
    /\ estimate.outputs = <<>>
    /\ estimate.contract.ValidProofOutputs = <<100, 150>>
    /\ estimate.revenue = [valid |-> 0, missed |-> 100]

\* C34: Store.transaction runs the function at most retryAttempts times and
\* always returns; a further attempt follows only an attempt that failed
\* with a database-busy error; the first error that is not a busy error is
\* returned at once, success returns nil at once, and when every attempt was
\* busy an error is returned.
C34_BoundedRetry ==
    /\ [] (attempt.i <= retryAttempts /\ attempt.runs <= attempt.i)
    /\ [] (attempt.err = "nil" => attempt.pc = "returned" /\ attempt.result = "nil")
    /\ [] (attempt.err = "other" => attempt.pc = "returned" /\ attempt.result = "other")
    /\ [] ((attempt.pc = "returned" /\ attempt.err = "busy")
            => attempt.i = retryAttempts /\ attempt.result = "transaction failed")
    /\ [][/\ attempt'.i # attempt.i => attempt'.i = attempt.i + 1 /\ attempt.err = "busy"
          /\ attempt.pc = "returned" => attempt' = attempt]_vars
    /\ <>(attempt.pc = "returned")

\* every one of the retryAttempts attempts met a busy database and the call
\* returned its error
C34_GaveUp ==
    /\ attempt.pc = "returned"
    /\ attempt.i = retryAttempts
    /\ attempt.runs = retryAttempts
    /\ attempt.result = "transaction failed"

\* C35: whatever the number of busy retries, a Store.transaction call that
\* returns nil has the effects of exactly one execution of the function, on
\* the Store as it was when the committing attempt began, and a call that
\* returns an error has none: an attempt that fails leaves the Store as it
\* found it, and at most one attempt commits.
C35_OneExecution ==
    /\ [] (attempt.commits <= 1)
    /\ [] (attempt.pc # "returned" => db = attempt.foreign /\ attempt.commits = 0)
    /\ [] (attempt.pc = "returned"
            => IF attempt.result = "nil"
               THEN /\ attempt.commits = 1
                    /\ ~ processChange(attempt.foreign, attempt.change).err
                    /\ db = processChange(attempt.foreign, attempt.change).db
               ELSE attempt.commits = 0 /\ db = attempt.foreign)
    /\ [][(attempt.pc = "calling" /\ attempt'.others = attempt.others)
            => IF attempt'.err = "nil"
               THEN db' = processChange(db, attempt.change).db
               ELSE db' = db]_vars

\* the third attempt committed, after two busy ones and a commit of the
\* market feed in between: the Store holds the feed's rate and the change
C35_CommittedAfterRetries ==
    /\ attempt.pc = "returned"
    /\ attempt.result = "nil"
    /\ attempt.i = 3
    /\ attempt.runs = 3
    /\ attempt.others = 1
    /\ db.market_data # {}
    /\ db.global_settings.contracts_last_processed_change = attempt.change.ID

\* the task is in its catch-up loop
InCatchUp == feed.pc \in {"catchup", "fetched", "failed"}

\* C36: in the catch-up loop the cursor current advances by exactly one hour
\* and only in the step in which the rate for current was fetched and
\* upserted; after a failure the same hour is tried again; the hours the
\* loop has stored are the hours from its start cursor on, in order and
\* without a gap, and the cursor is the hour after the last of them.
C36_NoHourSkipped ==
    /\ [] (InCatchUp
            => /\ \A i \in 1 .. Len(feed.stored) : feed.stored[i] = feed.start + (i - 1) * Hour
               /\ feed.current = feed.start + Len(feed.stored) * Hour
               /\ \A i \in 1 .. Len(feed.stored) :
                    \E r \in db.market_data : r.date_created = feed.stored[i])
    /\ [][(InCatchUp /\ feed'.current # feed.current)
            => /\ feed.pc = "fetched"
               /\ feed'.current = feed.current + Hour
               /\ feed'.stored = Append(feed.stored, feed.current)
               /\ \E r \in db'.market_data : r.date_created = feed.current]_vars
    /\ [][(InCatchUp /\ feed'.pc = "failed")
            => feed'.current = feed.current /\ feed'.stored = feed.stored /\ db' = db]_vars

\* the loop has stored three hours and has had to retry on the way
C36_StoredAfterRetry ==
    /\ InCatchUp
    /\ feed.retried
    /\ Len(feed.stored) = 3
    /\ feed.current = feed.start + 3 * Hour

\* the step asks the provider for a rate: a year's rates, the rate of the
\* catch-up cursor, or the ticker's rate of the current hour
Fetches ==
    \/ feed.pc = "years" /\ feed'.pc = "rates"
    \/ feed.pc = "catchup" /\ feed'.pc \in {"fetched", "failed"}
    \/ feed.pc = "ticker" /\ feed.tick /\ ~ feed'.tick

\* the step writes a rate of the yearly backfill to the Store
WritesYearRate == feed.pc = "rates" /\ feed'.rates # feed.rates

\* the step is the catch-up loop's sleep after a failure
Sleeps == feed.pc = "failed" /\ feed'.pc = "catchup"

\* C37: every iteration of the market feed (yearly backfill, per-rate
\* upsert, hourly catch-up, ticker) tests the cancellation signal before its
\* next provider fetch and before its next sleep: once the context is
\* cancelled the task makes no further fetch, begins no further store write
\* and does not sleep, it returns.
C37_CancelStopsIO ==
    [][feed.done => ~ (Fetches \/ WritesYearRate \/ Sleeps)]_vars

\* C38: the ticker that refreshes the rate of the current hour is started
\* only by the step that finds the catch-up loop complete, current at or
\* past the hour computed when the loop began; it is never running while the
\* loop is fetching, storing or waiting to retry an hour.
C38_TickerAfterCatchUp ==
    /\ [] (feed.ticker
            => /\ ~ InCatchUp
               /\ feed.current >= feed.end
               /\ \A h \in {feed.start + i * Hour : i \in 0 .. Len(feed.stored)} :
                    h < feed.end => \E r \in db.market_data : r.date_created = h)
    /\ [] (InCatchUp => ~ feed.ticker)
    /\ [][(feed'.ticker /\ ~ feed.ticker)
            => feed.pc = "catchup" /\ feed.current >= feed.end]_vars
    /\ [][(feed.pc = "ticker" /\ feed.tick /\ ~ feed'.tick) => feed.ticker]_vars

\* the ticker runs and has refreshed the current hour, after a catch-up
\* that had to retry
C38_TickerRefreshed ==
    /\ feed.ticker
    /\ feed.retried
    /\ feed.passed = 1
    /\ Len(feed.stored) > 0
    /\ \E r \in db.market_data : r.date_created = HourOf(feed.now) /\ r.date_created >= feed.end

\* C39: when the context is never cancelled and the task has entered the
\* catch-up loop (the Store held a rate after the backfill), and a fetch and
\* an upsert that are retried again and again succeed in the end, the loop
\* terminates and the ticker is started; every stored hour brings the cursor
\* closer to the end, the loop is left only when the cursor has reached it,
\* and as long as an hour before the end is not stored the task stays in the
\* loop, retrying, and no ticker is started.
C39_CatchUpTerminates ==
    /\ ([] ~ feed.done) => (InCatchUp ~> feed.ticker)
    /\ [][(feed.pc = "fetched" /\ feed'.pc = "catchup")
            => feed.end - feed'.current < feed.end - feed.current]_vars
    /\ [][(InCatchUp /\ ~ feed.done /\ feed.current < feed.end)
            => (InCatchUp' /\ ~ feed'.ticker)]_vars
    /\ [] (feed.ticker => feed.start + Len(feed.stored) * Hour >= feed.end)

\* never cancelled, the task has caught up through a retry and its ticker
\* is waiting for the next tick
C39_CaughtUp ==
    /\ feed.pc = "ticker"
    /\ ~ feed.done
    /\ ~ feed.tick
    /\ feed.retried
    /\ feed.ticker
    /\ feed.current = feed.end

\* C40: a GET /metrics/revenue/:period request whose end is before its start
\* is answered with 400 "end must be after start" and nothing else: Periods
\* is not called, nothing is encoded and the handler does not panic; and
\* Periods is never called with a normalized start that is not before the
\* normalized end, so it never forward-fills over an empty list of periods.
C40_EndBeforeStartRejected ==
    request.route = "GET /metrics/revenue/:period"
        => /\ (request.start # ZeroTime /\ request.end # ZeroTime /\ request.end < request.start)
                => /\ response.status = 400
                   /\ response.calls = <<>>
                   /\ ~ response.encoded
                   /\ ~ response.panic
           /\ \A i \in 1 .. Len(response.calls) :
                response.calls[i].start < response.calls[i].end

====
